---- MODULE Spec2Model ----
(***************************************************************************)
(* Batch document-processing pipeline (batch-process-docs): the Poll       *)
(* Controller (PollingNode) and the Result Splitter (SplitResultsNode),    *)
(* driven by the state manager that re-invokes a node after a requeue      *)
(* signal and retries a node that raised, and an external batch service    *)
(* whose job moves through its lifecycle on its own; and the states the    *)
(* split fans out, one per result: the Validator (ValidationNode), the     *)
(* Failure Router (FailureHandlingNode, with the single-document graph's   *)
(* router writing to the same directory) and the Database Writer           *)
(* (DatabaseWriteNode), which run in any order on a shared wall clock.     *)
(* Before the polling: the chunking of the paths (ChunkingNode), the       *)
(* parsing of a chunk's files (FileParsingNode) and its submission         *)
(* (BatchRequestNode, retried by the graph's policy), and the registered   *)
(* BatchProcessingNode that reads and submits in one step.  Beside the     *)
(* batch graph: the validation and the database write of the               *)
(* single-document graph (sync-process-docs).                              *)
(*                                                                         *)
(* Data representation.                                                    *)
(*   A character string that the code inspects (a response id, a plain     *)
(*   text payload) is a sequence of one-character strings.                 *)
(*   A text that the code hands to json.loads is one of                    *)
(*     [k |-> "empty"]            the empty string                         *)
(*     [k |-> "raw", s |-> cs]    the non-empty characters cs, not JSON    *)
(*     [k |-> "json", v |-> v]    a serialisation of the JSON value v      *)
(*   A Python dict the code builds itself is a record (key presence is     *)
(*   DOMAIN); a JSON value of unknown shape (what a reply text denotes,    *)
(*   what batch_info denotes) is tagged: [t |-> "obj", f |-> record],      *)
(*   [t |-> "str", s |-> cs], [t |-> "num", n |-> i], [t |-> "null"],      *)
(*   [t |-> "list", xs |-> seq].  A file path that is only passed on is a  *)
(*   plain string.                                                         *)
(***************************************************************************)
EXTENDS Integers, Sequences, FiniteSets, TLC

VARIABLES
    batch_info,   \* PollingNode.Inputs.batch_info (a text)
    job,          \* the external batch job behind Inputs.task_id
    pc,           \* the polling state at the state manager
    polls,        \* executions of PollingNode.execute so far (saturating)
    retries,      \* retries of the polling state spent after an error
    last,         \* record of the most recent execution of PollingNode
    prev,         \* record of the execution before it
    seen,         \* every <<observation, outcome>> pair of the executions so far
    emitted,      \* the Outputs PollingNode has returned, in order
    spc,          \* the split_results state at the state manager
    splitOut,     \* what SplitResultsNode.execute returned
    items,        \* the per-result states fanned out to validation: their inputs
    vout,         \* item -> what ValidationNode.execute returned
    rout,         \* item -> what FailureHandlingNode.execute returned
    wout,         \* item -> what DatabaseWriteNode.execute returned
    ledger,       \* the failures/ directory: file name -> rows of the file
    db,           \* the processed_documents collection, in insertion order
    clock,        \* the wall clock, in seconds
    sin,          \* single-document graph: Inputs.file_info of its validation
    svout,        \* single-document graph: what its ValidationNode returned
    swout,        \* single-document graph: what its DatabaseWriteNode returned last
    sdb,          \* the sync_processed_documents collection
    cin,          \* ChunkingNode.Inputs
    cout,         \* what ChunkingNode.execute returned
    chunk,        \* one chunk handed on to parsing and submission (a text)
    unreadable,   \* the paths whose file cannot be read
    pout,         \* what FileParsingNode.execute returned for the chunk
    bout,         \* what BatchRequestNode.execute returned last for the chunk
    bpout,        \* what BatchProcessingNode.execute returned for the chunk
    calls,        \* the batches.create calls the service has received, in order
    tries         \* retries of the batch_request state spent after an error

itemVars == <<items, vout, rout, wout, ledger, db, clock>>

pollVars == <<batch_info, job, pc, polls, retries, last, prev, seen, emitted,
              spc, splitOut>>

syncVars == <<sin, svout, swout, sdb>>

frontVars == <<cin, cout, chunk, unreadable, pout, bout, bpout, calls, tries>>

vars == <<batch_info, job, pc, polls, retries, last, prev, seen, emitted,
          spc, splitOut, items, vout, rout, wout, ledger, db, clock,
          sin, svout, swout, sdb,
          cin, cout, chunk, unreadable, pout, bout, bpout, calls, tries>>

\* ------------------------------------------------------------------ bounds
MaxResults == 2     \* most inline responses / result-file lines of a job
MaxPolls == 3       \* the poll counter saturates here
MaxClock == 1       \* datetime.now() returns a time in 0..MaxClock
MaxDocs == 3        \* a collection is written while it holds fewer documents
MaxPaths == 12      \* most file paths handed to the chunking
MaxFiles == 3       \* most files of the chunk that is parsed and submitted

\* ------------------------------------------------------- program constants
RequeueSeconds == 30
max_retries == 3
MinContentLen == 10

\* ------------------------------------------------------------- json, text
EmptyT == [k |-> "empty"]
Raw(s) == [k |-> "raw", s |-> s]
Json(v) == [k |-> "json", v |-> v]

ObjV(f) == [t |-> "obj", f |-> f]
StrV(s) == [t |-> "str", s |-> s]
NumV(n) == [t |-> "num", n |-> n]

\* json.dumps(v)
JsonDumps(v) == Json(v)

\* json.loads(text): the value, or JSONDecodeError
JsonLoads(text) ==
    IF text.k = "json" THEN [ok |-> TRUE, v |-> text.v] ELSE [ok |-> FALSE]

\* bool(text)
Truthy(text) == text.k # "empty"

\* d.get(key, default) on a dict held as a record
Get(d, key, default) == IF key \in DOMAIN d THEN d[key] ELSE default

\* the characters of str(i) for the small indices of the model
Digit(i) == <<ToString(i)>>

\* ch in s
Contains(s, ch) == \E n \in 1..Len(s) : s[n] = ch

\* -------------------------------------------------------- sample payloads
LongText == <<"p", "l", "a", "i", "n", " ", "w", "o", "r", "d", "s">>
NoContentText == <<"N", "o", " ", "c", "o", "n", "t", "e", "n", "t">>
GoodDoc == ObjV([title |-> StrV(<<"T">>), content |-> StrV(LongText)])
UsageA == [prompt_token_count |-> 1, candidates_token_count |-> 1,
           total_token_count |-> 2, cached_content_token_count |-> 0]

\* One element of batch_job.dest.inlined_responses:
\*   "ok"      a response with candidates,
\*   "nocand"  a response whose candidates list is empty,
\*   "noresp"  an entry whose response is None (the request failed).
InlineItems ==
    {[kind |-> "ok", text |-> Json(GoodDoc), rid |-> <<"r", "_", "1">>],
     [kind |-> "ok", text |-> Raw(LongText), rid |-> <<"r", "2">>],
     [kind |-> "ok", text |-> EmptyT, rid |-> <<"r", "_", "3">>],
     [kind |-> "nocand", text |-> EmptyT, rid |-> <<"r", "4">>],
     [kind |-> "noresp", text |-> EmptyT, rid |-> <<>>]}

\* One line of a downloaded result file: blank, a JSON object, or damaged.
LineEntryA == ObjV([content |-> Raw(LongText), response_id |-> <<"f", "_", "1">>])
LineEntryB == ObjV([key |-> <<"k", "1">>])
FileLines == {EmptyT, Raw(<<" ">>), Json(LineEntryA), Json(LineEntryB),
              Raw(<<"{", "x">>)}

SeqsUpTo(S, n) == UNION {[1..m -> S] : m \in 0..n}

\* a job of five documents answered inline
ItemOk(text, n) == [kind |-> "ok", text |-> text, rid |-> <<"r", "_", ToString(n)>>]
FiveInline ==
    <<ItemOk(Json(GoodDoc), 1), ItemOk(Raw(LongText), 2), ItemOk(EmptyT, 3),
      ItemOk(Json(GoodDoc), 4), ItemOk(Json(NumV(7)), 5)>>

\* batch_job.dest as the status call returns it.  dest itself may be None
\* (NoDest).  inlined_responses is "absent" (the object has no such
\* attribute), "none" (the attribute is there and holds None) or a list;
\* file_name is "absent", "none" (None or "") or "named", and lines are the
\* lines of the named file.
NoDest == [t |-> "nodest"]
Dests ==
    {NoDest,
     [t |-> "dest", inl |-> [t |-> "list", items |-> FiveInline], file |-> "absent",
      lines |-> <<>>]}
    \cup {[t |-> "dest", inl |-> [t |-> "list", items |-> its], file |-> f,
           lines |-> IF f = "named" THEN <<Json(LineEntryA)>> ELSE <<>>] :
            its \in SeqsUpTo(InlineItems, MaxResults), f \in {"absent", "named"}}
    \cup {[t |-> "dest", inl |-> [t |-> i], file |-> "named", lines |-> ls] :
            i \in {"absent", "none"}, ls \in SeqsUpTo(FileLines, MaxResults)}
    \cup {[t |-> "dest", inl |-> [t |-> i], file |-> f, lines |-> <<>>] :
            i \in {"absent", "none"}, f \in {"absent", "none"}}

\* Inputs.task_id: the service-assigned batch name
TaskIdIn == "batches/b1"

\* Inputs.batch_info as BatchRequestNode writes it, and a text that is not JSON
BatchInfoV ==
    ObjV([task_id |-> "task_1", file_count |-> 2,
          file_paths |-> <<"a.pdf", "b.txt">>, status |-> "submitted",
          gemini_batch_id |-> TaskIdIn, request_count |-> 2])
BatchInfoTexts == {Json(BatchInfoV), Raw(<<"{", "x">>)}

\* ------------------------------------------------------------ PollingNode
KnownStates == {"JOB_STATE_PENDING", "JOB_STATE_RUNNING", "JOB_STATE_SUCCEEDED",
                "JOB_STATE_FAILED", "JOB_STATE_CANCELLING", "JOB_STATE_CANCELLED"}
FinalStates == {"JOB_STATE_SUCCEEDED", "JOB_STATE_FAILED", "JOB_STATE_CANCELLED"}

\* the status_mapping dict
status_mapping ==
    [name \in KnownStates |->
        CASE name = "JOB_STATE_PENDING" -> "pending"
          [] name = "JOB_STATE_RUNNING" -> "processing"
          [] name = "JOB_STATE_SUCCEEDED" -> "completed"
          [] name = "JOB_STATE_FAILED" -> "failed"
          [] name = "JOB_STATE_CANCELLING" -> "processing"
          [] name = "JOB_STATE_CANCELLED" -> "failed"]

\* faulty variants of mapped_status: cancelled read as still running, a
\* budget of attempts, succeeded read as still running, an unknown code read
\* as a failure
mapped_status_unknown_failed(name) ==
    IF name \in DOMAIN status_mapping THEN status_mapping[name] ELSE "failed"
mapped_status_cancelled_running(name) ==
    IF name = "JOB_STATE_CANCELLED" THEN "processing"
    ELSE IF name \in DOMAIN status_mapping THEN status_mapping[name] ELSE "pending"
mapped_status_attempt_bound(name) ==
    IF polls >= 2 THEN "failed"
    ELSE IF name \in DOMAIN status_mapping THEN status_mapping[name] ELSE "pending"
mapped_status_never_done(name) ==
    IF name = "JOB_STATE_SUCCEEDED" THEN "processing"
    ELSE IF name \in DOMAIN status_mapping THEN status_mapping[name] ELSE "pending"

\* status_mapping.get(batch_job.state.name, "pending")
mapped_status(name) ==
    IF name \in DOMAIN status_mapping THEN status_mapping[name] ELSE "pending"

NoJob == [state |-> "none", dest |-> NoDest]

\* faulty variant: a failed status call read as a job still pending
check_task_status_transient(fail, j) ==
    IF fail THEN [status |-> "pending", batch_job |-> NoJob, queries |-> 1]
    ELSE [status |-> mapped_status(j.state), batch_job |-> j, queries |-> 1]
\* _check_task_status: one status call; an exception of the call is caught
\* and answered ("failed", None)
check_task_status(fail, j) ==
    IF fail THEN [status |-> "failed", batch_job |-> NoJob, queries |-> 1]
    ELSE [status |-> mapped_status(j.state), batch_job |-> j, queries |-> 1]

\* hasattr(batch_job, 'dest') and hasattr(batch_job.dest, 'inlined_responses')
HasInlined(d) == d.t = "dest" /\ d.inl.t # "absent"

\* hasattr(batch_job, 'dest') and hasattr(batch_job.dest, 'file_name')
\*     and batch_job.dest.file_name
HasFileName(d) == d.t = "dest" /\ d.file = "named"

\* the result dict built from one inlined response
InlineResult(item) ==
    ObjV([response_id |-> item.rid, model_version |-> "gemini-2.5-flash",
          content |-> IF item.kind = "ok" THEN item.text ELSE Raw(NoContentText),
          usage_metadata |-> UsageA])

\* line.strip() is empty
IsBlank(line) ==
    \/ line.k = "empty"
    \/ line.k = "raw" /\ \A n \in 1..Len(line.s) : line.s[n] = " "

\* _get_task_results: the result dict, or the exception that escapes
get_task_results(task_id, batch_job, dlFail) ==
    IF batch_job.state # "JOB_STATE_SUCCEEDED"
    THEN [ok |-> TRUE, src |-> "none", downloads |-> 0,
          v |-> [task_id |-> task_id, status |-> batch_job.state, results |-> <<>>]]
    ELSE IF HasInlined(batch_job.dest)
    THEN LET inl == batch_job.dest.inl IN
         IF inl.t = "none"
         THEN [ok |-> FALSE, src |-> "inline", downloads |-> 0, exc |-> "TypeError"]
         ELSE IF \E n \in 1..Len(inl.items) : inl.items[n].kind = "noresp"
         THEN [ok |-> FALSE, src |-> "inline", downloads |-> 0,
               exc |-> "AttributeError"]
         ELSE [ok |-> TRUE, src |-> "inline", downloads |-> 0,
               v |-> [task_id |-> task_id, status |-> "completed",
                      results |-> [n \in 1..Len(inl.items) |->
                                      InlineResult(inl.items[n])]]]
    ELSE IF HasFileName(batch_job.dest)
    THEN LET lines == SelectSeq(batch_job.dest.lines, LAMBDA l : ~IsBlank(l)) IN
         IF dlFail
         THEN [ok |-> FALSE, src |-> "file", downloads |-> 1, exc |-> "DownloadError"]
         ELSE IF \E n \in 1..Len(lines) : ~JsonLoads(lines[n]).ok
         THEN [ok |-> FALSE, src |-> "file", downloads |-> 1,
               exc |-> "JSONDecodeError"]
         ELSE [ok |-> TRUE, src |-> "file", downloads |-> 1,
               v |-> [task_id |-> task_id, status |-> "completed",
                      results |-> [n \in 1..Len(lines) |-> JsonLoads(lines[n]).v]]]
    ELSE [ok |-> TRUE, src |-> "none", downloads |-> 0,
          v |-> [task_id |-> task_id, status |-> "failed",
                 error |-> "No output file or inlined responses available",
                 results |-> <<>>]]

\* timedelta(seconds=30) of the ReQueueAfterSignal
RequeueDelayAsMinutes == RequeueSeconds * 60   \* faulty variant: minutes
RequeueDelay == RequeueSeconds

\* PollingNode.execute: what one invocation does and how it ends.
\*   kind "output"   returns Outputs(task_result, batch_info)
\*   kind "requeue"  raises ReQueueAfterSignal(delay)
\*   kind "error"    raises exc
execute(task_id, bi, fail, j, dlFail) ==
    LET parsed == JsonLoads(bi) IN
    IF ~parsed.ok
    THEN [kind |-> "error", exc |-> "JSONDecodeError", queries |-> 0,
          downloads |-> 0, mapped |-> "none", src |-> "none"]
    ELSE IF parsed.v.t # "obj"
    THEN [kind |-> "error", exc |-> "AttributeError", queries |-> 0,
          downloads |-> 0, mapped |-> "none", src |-> "none"]
    ELSE
    LET st == check_task_status(fail, j) IN
    IF st.status = "completed"
    THEN LET tr == get_task_results(task_id, st.batch_job, dlFail) IN
         IF tr.ok
         THEN [kind |-> "output", task_result |-> JsonDumps(ObjV(tr.v)),
               batch_info |-> bi, queries |-> st.queries,
               downloads |-> tr.downloads, mapped |-> st.status, src |-> tr.src]
         ELSE [kind |-> "error", exc |-> tr.exc, queries |-> st.queries,
               downloads |-> tr.downloads, mapped |-> st.status, src |-> tr.src]
    ELSE IF st.status = "failed"
    THEN [kind |-> "output", task_result |-> JsonDumps(ObjV([error |-> "Task failed"])),
          batch_info |-> bi, queries |-> st.queries, downloads |-> 0,
          mapped |-> st.status, src |-> "none"]
    ELSE [kind |-> "requeue", delay |-> RequeueDelay, queries |-> st.queries,
          downloads |-> 0, mapped |-> st.status, src |-> "none"]

\* ------------------------------------------------------- SplitResultsNode
ResponsePrefix == <<"r", "e", "s", "p", "o", "n", "s", "e", "_">>
DocumentTitle == <<"D", "o", "c", "u", "m", "e", "n", "t">>
EmptyTitle == <<"E", "m", "p", "t", "y", " ", "R", "e", "s", "p", "o", "n", "s", "e">>
EmptyBody == <<"N", "o", " ", "c", "o", "n", "t", "e", "n", "t", " ",
               "r", "e", "c", "e", "i", "v", "e", "d">>
EmptyDict == [x \in {} |-> 0]

\* the metadata dict of a synthesized extracted_data
SynthMetadata(response_id, model_version, usage_metadata) ==
    [response_id |-> response_id, model_version |-> model_version,
     usage_metadata |-> usage_metadata]

\* faulty variant of ExtractedData: text that is not JSON handled like no text
ExtractedDataDropsText(content, response_id, model_version, usage_metadata) ==
    IF Truthy(content) /\ JsonLoads(content).ok
    THEN JsonLoads(content).v
    ELSE ObjV([title |-> StrV(EmptyTitle), content |-> StrV(EmptyBody),
               metadata |-> SynthMetadata(response_id, model_version,
                                          usage_metadata)])

\* lines 64-89: extracted_data of one result
ExtractedData(content, response_id, model_version, usage_metadata) ==
    IF Truthy(content)
    THEN IF JsonLoads(content).ok
         THEN JsonLoads(content).v
         ELSE ObjV([title |-> StrV(DocumentTitle), content |-> StrV(content.s),
                    metadata |-> SynthMetadata(response_id, model_version,
                                               usage_metadata)])
    ELSE ObjV([title |-> StrV(EmptyTitle), content |-> StrV(EmptyBody),
               metadata |-> SynthMetadata(response_id, model_version,
                                          usage_metadata)])

\* lines 91-95: file_path recovered from the response id
FilePathOf(response_id) == IF Contains(response_id, "_") THEN response_id ELSE <<>>

\* enumerate() index of the k-th element (k counted from 1)
EnumIndexFromOne(k) == k       \* faulty variant: enumerate(results, 1)
EnumIndex(k) == k - 1

\* line 48: return []
EmptyReturnRaises == [kind |-> "error", exc |-> "ValueError"]   \* faulty variant
EmptyReturn == [kind |-> "output", outputs |-> <<>>]

\* lines 52-113: the Outputs built for results[k]
\* (faulty variant: the metadata is left out of what is emitted)
SplitOneDropsInfo(result, k, task_id, status, bi, now) ==
    [individual_result |->
         JsonDumps(ObjV([task_id |-> task_id, status |-> status,
                         result_index |-> EnumIndex(k),
                         response_id |-> Get(result.f, "response_id", <<>>),
                         file_path |-> <<>>,
                         extracted_data |-> ObjV(EmptyDict),
                         batch_info |-> ObjV(EmptyDict), split_timestamp |-> now])),
     batch_info |-> JsonDumps(ObjV(EmptyDict))]
SplitOne(result, k, task_id, status, bi, now) ==
    LET i == EnumIndex(k)
        content == Get(result.f, "content", EmptyT)
        response_id == Get(result.f, "response_id", ResponsePrefix \o Digit(i))
        model_version == Get(result.f, "model_version", "unknown")
        usage_metadata == Get(result.f, "usage_metadata", EmptyDict)
        individual_result ==
            [task_id |-> task_id, status |-> status, result_index |-> i,
             response_id |-> response_id, model_version |-> model_version,
             usage_metadata |-> usage_metadata,
             file_path |-> FilePathOf(response_id),
             extracted_data |-> ExtractedData(content, response_id,
                                              model_version, usage_metadata),
             batch_info |-> bi, split_timestamp |-> now]
    IN [individual_result |-> JsonDumps(ObjV(individual_result)),
        batch_info |-> JsonDumps(bi)]

\* SplitResultsNode.execute: the list of Outputs, or the exception raised
split_execute(task_result, bi_text, now) ==
    LET tr == JsonLoads(task_result)
        bi == JsonLoads(bi_text)
    IN
    IF ~tr.ok \/ ~bi.ok THEN [kind |-> "error", exc |-> "JSONDecodeError"]
    ELSE IF bi.v.t # "obj" \/ tr.v.t # "obj"
    THEN [kind |-> "error", exc |-> "AttributeError"]
    ELSE
    LET results == Get(tr.v.f, "results", <<>>)
        task_id == Get(tr.v.f, "task_id", "unknown")
        status == Get(tr.v.f, "status", "unknown")
    IN
    IF Len(results) = 0 THEN EmptyReturn
    ELSE IF \E k \in 1..Len(results) : results[k].t # "obj"
    THEN [kind |-> "error", exc |-> "AttributeError"]
    ELSE [kind |-> "output",
          outputs |-> [k \in 1..Len(results) |->
                          SplitOne(results[k], k, task_id, status, bi.v, now)]]

\* --------------------------------------------------------- ValidationNode
\* A dict of the model holds every scalar the schema types (task_id, status,
\* file_path, result_index, split_timestamp, metadata) in the representation
\* of its schema type.  ObjW(f, wrong) is a dict in which the fields named by
\* `wrong` hold a JSON value of another type.
ObjW(f, wrong) == [t |-> "obj", f |-> f, wrong |-> wrong]
Mistyped(v) == IF "wrong" \in DOMAIN v THEN v.wrong ELSE {}
NullV == [t |-> "null"]

Unknown == <<"u", "n", "k", "n", "o", "w", "n">>

\* str.strip(): whitespace removed at both ends
IsSpace(ch) == ch \in {" ", "\t", "\n"}
RECURSIVE LStrip(_)
LStrip(s) == IF Len(s) > 0 /\ IsSpace(Head(s)) THEN LStrip(Tail(s)) ELSE s
RECURSIVE RStrip(_)
RStrip(s) ==
    IF Len(s) > 0 /\ IsSpace(s[Len(s)]) THEN RStrip(SubSeq(s, 1, Len(s) - 1)) ELSE s
Strip(s) == RStrip(LStrip(s))

\* not v, for a JSON value v
Falsy(v) ==
    \/ v.t = "null"
    \/ v.t = "str" /\ Len(v.s) = 0
    \/ v.t = "num" /\ v.n = 0
    \/ v.t = "obj" /\ DOMAIN v.f = {}

\* the schema of lines 41-61
SchemaRequired == {"task_id", "status", "file_path", "extracted_data"}
SchemaScalars == {"task_id", "status", "result_index", "file_path", "split_timestamp"}
ExtractedRequired == {"title", "content"}

\* what the schema finds wrong with extracted_data
\* (faulty variant: the object is not looked into)
ExtractedViolationsShallow(ed) ==
    IF ed.t # "obj" THEN {<<"extracted_data", "type">>} ELSE {}
ExtractedViolations(ed) ==
    IF ed.t # "obj" THEN {<<"extracted_data", "type">>}
    ELSE {<<n, "required">> : n \in ExtractedRequired \ DOMAIN ed.f}
         \cup {<<n, "type">> : n \in {m \in ExtractedRequired \cap DOMAIN ed.f :
                                          ed.f[m].t # "str"}}
         \cup {<<n, "type">> : n \in {"metadata"} \cap DOMAIN ed.f \cap Mistyped(ed)}

\* what jsonschema.validate(individual_result, schema) finds wrong
SchemaViolations(ir) ==
    {<<n, "required">> : n \in SchemaRequired \ DOMAIN ir.f}
    \cup {<<n, "type">> : n \in SchemaScalars \cap DOMAIN ir.f \cap Mistyped(ir)}
    \cup (IF "batch_info" \in DOMAIN ir.f /\ ir.f.batch_info.t # "obj"
          THEN {<<"batch_info", "type">>} ELSE {})
    \cup (IF "extracted_data" \in DOMAIN ir.f
          THEN ExtractedViolations(ir.f.extracted_data) ELSE {})

\* line 80: len(content.strip())
\* (faulty variant: the length of the untrimmed content)
ContentLenUntrimmed(content) == Len(content.s)
ContentLen(content) == Len(Strip(content.s))

\* lines 68-82: the checks made once the schema has passed
\* (faulty variant: a record without file_path is marked partial as well)
HeuristicStatusByPath(file_path, extracted_data) ==
    IF Len(file_path) = 0 THEN "partial"
    ELSE IF \/ Falsy(Get(extracted_data.f, "title", NullV))
            \/ Falsy(Get(extracted_data.f, "content", NullV))
            \/ ContentLen(Get(extracted_data.f, "content", StrV(<<>>))) < MinContentLen
    THEN "partial" ELSE "valid"
HeuristicStatus(file_path, extracted_data) ==
    IF \/ Falsy(Get(extracted_data.f, "title", NullV))
       \/ Falsy(Get(extracted_data.f, "content", NullV))
       \/ ContentLen(Get(extracted_data.f, "content", StrV(<<>>))) < MinContentLen
    THEN "partial" ELSE "valid"

\* ValidationNode.execute: the Outputs, or the exception raised.  `checks`
\* records whether the checks of lines 68-82 ran.
validate_execute(ir_text, bi_text, now) ==
    LET ir == JsonLoads(ir_text)
        bi == JsonLoads(bi_text)
    IN
    IF ~ir.ok \/ ~bi.ok THEN [kind |-> "error", exc |-> "JSONDecodeError"]
    ELSE IF ir.v.t # "obj" THEN [kind |-> "error", exc |-> "AttributeError"]
    ELSE
    LET viol == SchemaViolations(ir.v) IN
    IF viol # {}
    THEN LET validated_data ==
                 [task_id |-> Get(ir.v.f, "task_id", "unknown"),
                  status |-> "validation_failed",
                  result_index |-> Get(ir.v.f, "result_index", -1),
                  file_path |-> Get(ir.v.f, "file_path", Unknown),
                  error |-> viol,
                  validation_timestamp |-> now,
                  validation_status |-> "invalid",
                  batch_info |-> bi.v]
         IN [kind |-> "output", validated_data |-> JsonDumps(ObjV(validated_data)),
             validation_status |-> "invalid", checks |-> FALSE]
    ELSE LET file_path == Get(ir.v.f, "file_path", <<>>)
             extracted_data == Get(ir.v.f, "extracted_data", ObjV(EmptyDict))
             validation_status == HeuristicStatus(file_path, extracted_data)
             validated_data ==
                 [task_id |-> Get(ir.v.f, "task_id", NullV),
                  status |-> Get(ir.v.f, "status", NullV),
                  result_index |-> Get(ir.v.f, "result_index", NullV),
                  file_path |-> file_path,
                  extracted_data |-> extracted_data,
                  validation_timestamp |-> now,
                  validation_status |-> validation_status,
                  batch_info |-> bi.v]
         IN [kind |-> "output", validated_data |-> JsonDumps(ObjV(validated_data)),
             validation_status |-> validation_status, checks |-> TRUE]

\* ----------------------------------------------------- FailureHandlingNode
\* lines 109-128: the reason written for a record
\* (faulty variants: content looked at before title; no check of the length)
get_failure_reason_content_first(validation_status, validated_data) ==
    IF validation_status = "invalid" THEN "schema_validation_failed"
    ELSE IF validation_status = "partial"
    THEN LET extracted_data == Get(validated_data.f, "extracted_data", ObjV(EmptyDict))
         IN IF Falsy(Get(extracted_data.f, "content", NullV)) THEN "missing_content"
            ELSE IF Falsy(Get(extracted_data.f, "title", NullV)) THEN "missing_title"
            ELSE IF ContentLen(Get(extracted_data.f, "content", StrV(<<>>)))
                      < MinContentLen
            THEN "content_too_short"
            ELSE "validation_failed"
    ELSE "unknown_failure"
get_failure_reason_no_length(validation_status, validated_data) ==
    IF validation_status = "invalid" THEN "schema_validation_failed"
    ELSE IF validation_status = "partial"
    THEN LET extracted_data == Get(validated_data.f, "extracted_data", ObjV(EmptyDict))
         IN IF Falsy(Get(extracted_data.f, "title", NullV)) THEN "missing_title"
            ELSE IF Falsy(Get(extracted_data.f, "content", NullV)) THEN "missing_content"
            ELSE "validation_failed"
    ELSE "unknown_failure"
get_failure_reason(validation_status, validated_data) ==
    IF validation_status = "invalid" THEN "schema_validation_failed"
    ELSE IF validation_status = "partial"
    THEN LET extracted_data == Get(validated_data.f, "extracted_data", ObjV(EmptyDict))
         IN IF Falsy(Get(extracted_data.f, "title", NullV)) THEN "missing_title"
            ELSE IF Falsy(Get(extracted_data.f, "content", NullV)) THEN "missing_content"
            ELSE IF ContentLen(Get(extracted_data.f, "content", StrV(<<>>)))
                      < MinContentLen
            THEN "content_too_short"
            ELSE "validation_failed"
    ELSE "unknown_failure"

\* lines 76-79: failures/failures_{task_id}_{timestamp}.csv, the timestamp
\* formatted to the second
FailureCsvPath(task_id, now) == <<"failures", task_id, now>>

\* open(path, 'w') followed by the header and one row: whatever the file
\* held, it now holds that row
WriteCsv(dir, path, row) == (path :> <<row>>) @@ dir

\* line 43: nothing to handle
\* (faulty variant: every record is handled as a failure)
NothingToHandleNever(validation_status) == FALSE
NothingToHandle(validation_status) == validation_status = "valid"

\* FailureHandlingNode.execute on the directory dir: the Outputs or the
\* exception raised, and the directory afterwards.  ioFail: open() fails (the
\* path names a missing directory, no permission, no space).  `by` marks the
\* row with the state that wrote it.
route_execute(validation_status, bi_text, vd_text, now, ioFail, dir, by) ==
    LET bi == JsonLoads(bi_text)
        vd == JsonLoads(vd_text)
    IN
    IF ~bi.ok \/ ~vd.ok
    THEN [out |-> [kind |-> "error", exc |-> "JSONDecodeError"], dir |-> dir]
    ELSE IF vd.v.t # "obj"
    THEN [out |-> [kind |-> "error", exc |-> "AttributeError"], dir |-> dir]
    ELSE IF NothingToHandle(validation_status)
    THEN [out |-> [kind |-> "output", failure_csv_path |-> <<>>, retry_count |-> "0"],
          dir |-> dir]
    ELSE IF ioFail
    THEN [out |-> [kind |-> "error", exc |-> "OSError"], dir |-> dir]
    ELSE
    LET task_id == Get(vd.v.f, "task_id", "unknown")
        path == FailureCsvPath(task_id, now)
        row == [file_path |-> Get(vd.v.f, "file_path", <<>>),
                failure_reason |-> get_failure_reason(validation_status, vd.v),
                task_id |-> task_id, timestamp |-> now, by |-> by]
    IN [out |-> [kind |-> "output", failure_csv_path |-> path,
                 retry_count |-> IF validation_status \in {"invalid", "partial"}
                                 THEN "1" ELSE "0"],
        dir |-> WriteCsv(dir, path, row)]

\* ------------------------------------------ FailureHandlingNode (sync path)
\* failures/failed_files_{timestamp}.csv
FailedFilesPath(now) == <<"failures", "failed_files", now>>

\* validated_result as the sync path's validation writes it
SyncResult(task_id, file_path, status) ==
    ObjV([task_id |-> task_id, file_path |-> file_path, status |-> status,
          error |-> "Processing failed"])
SyncResults ==
    {Json(SyncResult("s1", <<"a">>, "failed")), Json(SyncResult("s2", <<"b">>, "failed")),
     Json(SyncResult("s1", <<"a">>, "completed"))}

\* sync FailureHandlingNode.execute on the directory dir
sync_route_execute(vr_text, now, ioFail, dir) ==
    LET vr == JsonLoads(vr_text) IN
    IF ~vr.ok THEN [out |-> [kind |-> "error", exc |-> "JSONDecodeError"], dir |-> dir]
    ELSE IF vr.v.t # "obj"
    THEN [out |-> [kind |-> "error", exc |-> "AttributeError"], dir |-> dir]
    ELSE IF Get(vr.v.f, "status", "unknown") = "failed"
    THEN IF ioFail
         THEN [out |-> [kind |-> "error", exc |-> "OSError"], dir |-> dir]
         ELSE [out |-> [kind |-> "output", failure_status |-> "failure_logged"],
               dir |-> WriteCsv(dir, FailedFilesPath(now),
                                [file_path |-> Get(vr.v.f, "file_path", <<>>),
                                 task_id |-> Get(vr.v.f, "task_id", ""),
                                 error |-> Get(vr.v.f, "error", "Unknown error"),
                                 timestamp |-> now])]
    ELSE [out |-> [kind |-> "output", failure_status |-> "no_failure"], dir |-> dir]

\* ------------------------------------------------------ DatabaseWriteNode
\* faulty variant of write_record: every document is stored as completed
write_record_completed(validated_data, bi, now, by) ==
    [task_id |-> Get(validated_data.f, "task_id", "unknown"),
     file_path |-> Get(validated_data.f, "file_path", <<>>),
     extracted_data |-> Get(validated_data.f, "extracted_data", ObjV(EmptyDict)),
     processing_status |-> "completed",
     created_at |-> now, updated_at |-> now, batch_info |-> bi, by |-> by]
\* lines 93-106: the document of one record.  `by` marks the document with
\* the state that inserted it.
write_record(validated_data, bi, now, by) ==
    [task_id |-> Get(validated_data.f, "task_id", "unknown"),
     file_path |-> Get(validated_data.f, "file_path", <<>>),
     extracted_data |-> Get(validated_data.f, "extracted_data", ObjV(EmptyDict)),
     processing_status |-> Get(validated_data.f, "validation_status", "completed"),
     created_at |-> now, updated_at |-> now, batch_info |-> bi, by |-> by]

\* (faulty variant of write_execute: the metadata is parsed only once the
\* record has been inserted)
write_execute_late_parse(vd_text, bi_text, now, fail, coll, by) ==
    LET vd == JsonLoads(vd_text)
        bi == JsonLoads(bi_text)
    IN
    IF ~vd.ok
    THEN [out |-> [kind |-> "error", exc |-> "JSONDecodeError"], coll |-> coll]
    ELSE IF vd.v.t # "obj"
    THEN [out |-> [kind |-> "error", exc |-> "AttributeError"], coll |-> coll]
    ELSE IF fail = "index"
    THEN [out |-> [kind |-> "error", exc |-> "PyMongoError"], coll |-> coll]
    ELSE IF fail = "insert"
    THEN [out |-> [kind |-> "output", write_status |-> "failed", record_count |-> "0"],
          coll |-> coll]
    ELSE IF ~bi.ok
    THEN [out |-> [kind |-> "error", exc |-> "JSONDecodeError"],
          coll |-> Append(coll, write_record(vd.v, ObjV(EmptyDict), now, by))]
    ELSE [out |-> [kind |-> "output", write_status |-> "success", record_count |-> "1"],
          coll |-> Append(coll, write_record(vd.v, bi.v, now, by))]
\* DatabaseWriteNode.execute on the collection coll: the Outputs or the
\* exception raised, and the collection afterwards.  fail: "index" when
\* create_index fails, "insert" when insert_one fails, "none" otherwise.
write_execute(vd_text, bi_text, now, fail, coll, by) ==
    LET vd == JsonLoads(vd_text)
        bi == JsonLoads(bi_text)
    IN
    IF ~vd.ok \/ ~bi.ok
    THEN [out |-> [kind |-> "error", exc |-> "JSONDecodeError"], coll |-> coll]
    ELSE IF vd.v.t # "obj"
    THEN [out |-> [kind |-> "error", exc |-> "AttributeError"], coll |-> coll]
    ELSE IF fail = "index"
    THEN [out |-> [kind |-> "error", exc |-> "PyMongoError"], coll |-> coll]
    ELSE IF fail = "insert"
    THEN [out |-> [kind |-> "output", write_status |-> "failed", record_count |-> "0"],
          coll |-> coll]
    ELSE [out |-> [kind |-> "output", write_status |-> "success", record_count |-> "1"],
          coll |-> Append(coll, write_record(vd.v, bi.v, now, by))]

\* ------------------------------------- the single-document graph's nodes
\* sync ValidationNode.execute: the Outputs, or the exception raised.  The
\* node checks no schema and computes no validation_status: its result says
\* "completed" or "failed" only.
sync_validate_execute(fi_text, now) ==
    LET fi == JsonLoads(fi_text) IN
    IF ~fi.ok THEN [kind |-> "error", exc |-> "JSONDecodeError"]
    ELSE IF fi.v.t # "obj" THEN [kind |-> "error", exc |-> "AttributeError"]
    ELSE
    LET response_content == Get(fi.v.f, "response_content", EmptyT)
        file_path == Get(fi.v.f, "file_path", <<>>)
        task_id == Get(fi.v.f, "task_id", "")
        status == Get(fi.v.f, "status", "unknown")
        extracted_data ==
            IF JsonLoads(response_content).ok
            THEN JsonLoads(response_content).v
            ELSE ObjV([title |-> StrV(DocumentTitle),
                       content |-> StrV(IF response_content.k = "raw"
                                        THEN response_content.s ELSE <<>>),
                       metadata |-> [file_path |-> file_path, task_id |-> task_id,
                                     response_format |-> "plain_text"]])
        validated_result ==
            IF status # "completed"
            THEN ObjV([task_id |-> task_id, file_path |-> file_path,
                       status |-> "failed",
                       error |-> Get(fi.v.f, "error", "Processing failed"),
                       validation_timestamp |-> now])
            ELSE ObjV([task_id |-> task_id, file_path |-> file_path,
                       status |-> "completed", extracted_data |-> extracted_data,
                       usage_metadata |-> Get(fi.v.f, "usage_metadata", EmptyDict),
                       validation_timestamp |-> now])
    IN [kind |-> "output", validated_result |-> JsonDumps(validated_result),
        file_info |-> fi_text]

\* collection.update_one({"task_id": task_id}, {"$set": document,
\* "$setOnInsert": {"created_at": now}}, upsert=True): the first document
\* with that task_id takes the fields of `document`, or a new one is added
\* (faulty variant: a plain insert)
update_one_inserts(coll, task_id, document, now) ==
    Append(coll, document @@ [created_at |-> now])
update_one(coll, task_id, document, now) ==
    IF \E n \in 1..Len(coll) : coll[n].task_id = task_id
    THEN LET first == CHOOSE n \in 1..Len(coll) :
                          /\ coll[n].task_id = task_id
                          /\ \A m \in 1..(n - 1) : coll[m].task_id # task_id
         IN [coll EXCEPT ![first] = document @@ coll[first]]
    ELSE Append(coll, document @@ [created_at |-> now])

\* sync DatabaseWriteNode.execute on the collection coll: the Outputs or the
\* exception raised, and the collection afterwards.  fail: update_one raises.
\* A validation_timestamp that is absent reads as "", held here as -1.
sync_write_execute(vr_text, fi_text, now, fail, coll) ==
    LET vr == JsonLoads(vr_text)
        fi == JsonLoads(fi_text)
    IN
    IF ~vr.ok \/ ~fi.ok
    THEN [out |-> [kind |-> "error", exc |-> "JSONDecodeError"], coll |-> coll]
    ELSE IF vr.v.t # "obj"
    THEN [out |-> [kind |-> "error", exc |-> "AttributeError"], coll |-> coll]
    ELSE
    LET task_id == Get(vr.v.f, "task_id", "")
        document ==
            [task_id |-> task_id,
             file_path |-> Get(vr.v.f, "file_path", <<>>),
             status |-> Get(vr.v.f, "status", "unknown"),
             extracted_data |-> Get(vr.v.f, "extracted_data", ObjV(EmptyDict)),
             usage_metadata |-> Get(vr.v.f, "usage_metadata", EmptyDict),
             validation_timestamp |-> Get(vr.v.f, "validation_timestamp", -1),
             updated_at |-> now]
    IN
    IF fail
    THEN [out |-> [kind |-> "error", exc |-> "PyMongoError"], coll |-> coll]
    ELSE [out |-> [kind |-> "output", write_status |-> "success"],
          coll |-> update_one(coll, task_id, document, now)]

\* ------------------------------------------------------------ ChunkingNode
\* a JSON list
ListV(xs) == [t |-> "list", xs |-> xs]

\* int(text) for a str: blanks around it dropped, an optional sign, then
\* decimal digits only (the "_" grouping of digits is left out)
ParseInt(text) ==
    LET DigitChars == <<"0", "1", "2", "3", "4", "5", "6", "7", "8", "9">>
        IsDigit(c) == \E d \in 1..10 : DigitChars[d] = c
        DigitValue(c) == (CHOOSE d \in 1..10 : DigitChars[d] = c) - 1
        RECURSIVE Decimal(_)
        Decimal(ds) ==
            IF ds = <<>> THEN 0
            ELSE 10 * Decimal(SubSeq(ds, 1, Len(ds) - 1)) + DigitValue(ds[Len(ds)])
        s == Strip(text)
        signed == s # <<>> /\ s[1] \in {"+", "-"}
        digits == IF signed THEN Tail(s) ELSE s
    IN IF digits = <<>> \/ \E n \in 1..Len(digits) : ~IsDigit(digits[n])
       THEN [ok |-> FALSE]
       ELSE [ok |-> TRUE,
             n |-> IF signed /\ s[1] = "-" THEN 0 - Decimal(digits)
                   ELSE Decimal(digits)]

\* lines 40-43 from index i on: file_paths[i:i + chunk_size] for each i of
\* range(i, len(file_paths), chunk_size); a negative step gives an empty range
\* (faulty variant: a chunk is kept only when it is full)
RECURSIVE chunks_full_only(_, _, _)
chunks_full_only(file_paths, i, chunk_size) ==
    IF chunk_size < 0 \/ i + chunk_size > Len(file_paths) THEN <<>>
    ELSE <<SubSeq(file_paths, i + 1, i + chunk_size)>>
             \o chunks_full_only(file_paths, i + chunk_size, chunk_size)
RECURSIVE chunks_from(_, _, _)
chunks_from(file_paths, i, chunk_size) ==
    IF chunk_size < 0 \/ i >= Len(file_paths) THEN <<>>
    ELSE <<SubSeq(file_paths, i + 1,
                  IF i + chunk_size < Len(file_paths) THEN i + chunk_size
                  ELSE Len(file_paths))>>
             \o chunks_from(file_paths, i + chunk_size, chunk_size)

\* ChunkingNode.execute: the list of Outputs, or the exception raised.  A
\* JSON string is cut like a list; a number has no len(); a dict has a len()
\* but cannot be sliced.
chunk_execute(fp_text, cs_text) ==
    LET fp == JsonLoads(fp_text)
        cs == ParseInt(cs_text)
    IN
    IF ~fp.ok THEN [kind |-> "error", exc |-> "JSONDecodeError"]
    ELSE IF ~cs.ok THEN [kind |-> "error", exc |-> "ValueError"]
    ELSE IF fp.v.t \notin {"list", "str", "obj"}
    THEN [kind |-> "error", exc |-> "TypeError"]
    ELSE IF cs.n = 0 THEN [kind |-> "error", exc |-> "ValueError"]
    ELSE IF fp.v.t = "obj"
    THEN IF cs.n < 0 \/ DOMAIN fp.v.f = {}
         THEN [kind |-> "output", outputs |-> <<>>]
         ELSE [kind |-> "error", exc |-> "TypeError"]
    ELSE
    LET chunks == chunks_from(IF fp.v.t = "list" THEN fp.v.xs ELSE fp.v.s, 0, cs.n)
    IN [kind |-> "output",
        outputs |-> [c \in 1..Len(chunks) |->
                        [chunk |-> JsonDumps(IF fp.v.t = "list" THEN ListV(chunks[c])
                                             ELSE StrV(chunks[c]))]]]

\* --------------------------------------------------------- FileParsingNode
\* what _read_file_content returns for a readable file, and the content put
\* in place of it when reading raised
FileContent(file_path) == <<"content of ", file_path>>
ErrorMarker(file_path) == <<"[ERROR: Failed to read file - ", file_path, "]">>

\* lines 39-55: the entry of one file of the chunk
parse_file(file_path, unread) ==
    IF file_path \in unread
    THEN ObjV([file_path |-> file_path, content |-> ErrorMarker(file_path),
               error |-> file_path])
    ELSE ObjV([file_path |-> file_path, content |-> FileContent(file_path)])

\* FileParsingNode.execute on a chunk whose files in `unread` cannot be read;
\* task_id is the uuid4 drawn.  The chunks of the model are lists, or a
\* number, which has no len().
parse_execute(chunk_text, unread, task_id) ==
    LET file_paths == JsonLoads(chunk_text) IN
    IF ~file_paths.ok THEN [kind |-> "error", exc |-> "JSONDecodeError"]
    ELSE IF file_paths.v.t # "list" THEN [kind |-> "error", exc |-> "TypeError"]
    ELSE [kind |-> "output", task_id |-> task_id,
          parsed_files |->
              JsonDumps(ListV([k \in 1..Len(file_paths.v.xs) |->
                                  parse_file(file_paths.v.xs[k], unread)]))]

\* -------------------------------------------------------- BatchRequestNode
\* the request of one file: the prompt, "\n\nDocument content:\n", the content
InlineRequest(prompt, content) == [role |-> "user", text |-> <<prompt, content>>]

\* client.batches.create(model, src, config), svc being the calls the service
\* has received: the call is recorded; unless it fails it creates a job the
\* service names
\* (faulty variant: the call is sent twice)
create_twice(svc, src, display_name, fail, by) ==
    LET call == [src |-> src, display_name |-> display_name, ok |-> ~fail,
                 by |-> by]
    IN Append(Append(svc, call @@ [name |-> <<"batches/", ToString(Len(svc) + 1)>>]),
              call @@ [name |-> <<"batches/", ToString(Len(svc) + 2)>>])
create(svc, src, display_name, fail, by) ==
    Append(svc, [src |-> src, display_name |-> display_name, ok |-> ~fail,
                   by |-> by,
                   name |-> <<"batches/", ToString(Len(svc) + 1)>>])

\* BatchRequestNode.execute on the parsed_files of a parsing (a list of
\* entries, or a number): the Outputs or the exception raised, and the calls
\* the service has received afterwards
request_execute(pf_text, task_id, prompt, fail, svc) ==
    LET parsed_files == JsonLoads(pf_text) IN
    IF ~parsed_files.ok
    THEN [out |-> [kind |-> "error", exc |-> "JSONDecodeError"], calls |-> svc]
    ELSE IF parsed_files.v.t # "list"
    THEN [out |-> [kind |-> "error", exc |-> "TypeError"], calls |-> svc]
    ELSE
    LET files == parsed_files.v.xs
        inline_requests ==
            [k \in 1..Len(files) |-> InlineRequest(prompt, files[k].f.content)]
        after == create(svc, inline_requests, task_id, fail, "batch_request")
        actual_batch_id == after[Len(after)].name
        info ==
            ObjV([task_id |-> task_id, file_count |-> Len(files),
                  file_paths |-> [k \in 1..Len(files) |-> files[k].f.file_path],
                  status |-> "submitted", gemini_batch_id |-> actual_batch_id,
                  request_count |-> Len(inline_requests)])
    IN
    IF fail THEN [out |-> [kind |-> "error", exc |-> "APIError"], calls |-> after]
    ELSE [out |-> [kind |-> "output", task_id |-> actual_batch_id,
                   batch_info |-> JsonDumps(info)],
          calls |-> after]

\* ----------------------------------------------------- BatchProcessingNode
\* BatchProcessingNode.execute: the node reads the files itself, with nothing
\* around the read, and submits them
processing_execute(chunk_text, prompt, unread, task_id, fail, svc) ==
    LET file_paths == JsonLoads(chunk_text) IN
    IF ~file_paths.ok
    THEN [out |-> [kind |-> "error", exc |-> "JSONDecodeError"], calls |-> svc]
    ELSE IF file_paths.v.t # "list"
    THEN [out |-> [kind |-> "error", exc |-> "TypeError"], calls |-> svc]
    ELSE IF \E k \in 1..Len(file_paths.v.xs) : file_paths.v.xs[k] \in unread
    THEN [out |-> [kind |-> "error", exc |-> "OSError"], calls |-> svc]
    ELSE
    LET inline_requests ==
            [k \in 1..Len(file_paths.v.xs) |->
                InlineRequest(prompt, FileContent(file_paths.v.xs[k]))]
        after == create(svc, inline_requests, task_id, fail, "batch_processing")
        actual_batch_id == after[Len(after)].name
        info ==
            ObjV([task_id |-> task_id, file_count |-> Len(file_paths.v.xs),
                  file_paths |-> file_paths.v.xs, prompt |-> prompt,
                  status |-> "submitted", gemini_batch_id |-> actual_batch_id,
                  request_count |-> Len(inline_requests)])
    IN
    IF fail THEN [out |-> [kind |-> "error", exc |-> "APIError"], calls |-> after]
    ELSE [out |-> [kind |-> "output", task_id |-> actual_batch_id,
                   batch_info |-> JsonDumps(info)],
          calls |-> after]

\* ------------------------------------------------ sample individual results
\* a text of n characters
Chars(n) == [i \in 1..n |-> "c"]
Doc(title, content) == ObjV([title |-> StrV(title), content |-> StrV(content)])

\* extracted_data values: documents around every check of the validation, and
\* values the schema rejects
ExtractedSamples ==
    {GoodDoc, Doc(<<>>, Chars(5)), Doc(<<"x">>, <<>>), Doc(<<>>, <<>>),
     Doc(<<"x">>, Chars(5)), Doc(<<"x">>, Chars(9)), Doc(<<"x">>, Chars(10)),
     Doc(<<"x">>, <<" ">> \o Chars(9) \o <<" ", "\n">>),
     Doc(<<"x">>, <<" ", " ">>), Doc(<<>>, <<" ", " ">>),
     ObjV([content |-> StrV(LongText)]),
     ObjV([title |-> NumV(7), content |-> StrV(LongText)]),
     ObjV([title |-> StrV(<<"x">>), content |-> NullV]),
     NumV(7),
     ObjV([title |-> StrV(<<"x">>), content |-> StrV(Chars(10)),
           metadata |-> EmptyDict]),
     ObjW([title |-> StrV(<<"x">>), content |-> StrV(Chars(10)),
           metadata |-> EmptyDict], {"metadata"})}

\* the other batch of the samples
BatchInfoOther ==
    ObjV([task_id |-> "task_2", file_count |-> 1, file_paths |-> <<"c.md">>,
          status |-> "submitted", gemini_batch_id |-> "batches/b2",
          request_count |-> 1])

\* an individual result around extracted_data: complete, complete with other
\* values, reduced to the required fields, or with one field missing or of
\* another type
Shapes == {"full", "other", "min", "nofile", "noed", "badid", "badidx", "badinfo"}
FullFields(ed) ==
    [task_id |-> "t1", status |-> "completed", result_index |-> 0,
     file_path |-> <<"a", "_", "1">>, extracted_data |-> ed,
     batch_info |-> BatchInfoV, split_timestamp |-> 0]
Make(ed, shape) ==
    CASE shape = "full" -> ObjV(FullFields(ed))
      [] shape = "other" ->
           ObjV([task_id |-> "t2", status |-> "failed", result_index |-> 1,
                 file_path |-> <<>>, extracted_data |-> ed,
                 batch_info |-> BatchInfoOther, split_timestamp |-> 1])
      [] shape = "min" ->
           ObjV([task_id |-> "t1", status |-> "completed",
                 file_path |-> <<"a", "_", "1">>, extracted_data |-> ed])
      [] shape = "nofile" ->
           ObjV([task_id |-> "t1", status |-> "completed", result_index |-> 0,
                 extracted_data |-> ed, batch_info |-> BatchInfoV,
                 split_timestamp |-> 0])
      [] shape = "noed" ->
           ObjV([task_id |-> "t1", status |-> "completed", result_index |-> 0,
                 file_path |-> <<"a", "_", "1">>, batch_info |-> BatchInfoV,
                 split_timestamp |-> 0])
      [] shape = "badid" -> ObjW(FullFields(ed), {"task_id"})
      [] shape = "badidx" -> ObjW(FullFields(ed), {"result_index"})
      [] OTHER -> ObjV([FullFields(ed) EXCEPT !.batch_info = NumV(7)])

\* the inputs of one validation state
ItemIn(ir_text, bi_text) == [individual_result |-> ir_text, batch_info |-> bi_text]
MetadataTexts == {Json(BatchInfoV), Json(BatchInfoOther)}

\* one state with any input, or two states with equal extracted_data
SingleItems ==
    {<<ItemIn(Json(Make(ed, sh)), bi)>> :
        ed \in ExtractedSamples, sh \in Shapes, bi \in MetadataTexts}
    \cup {<<ItemIn(ir, bi)>> :
            ir \in {Json(NumV(7)), Raw(<<"{", "x">>), EmptyT},
            bi \in MetadataTexts \cup {Raw(<<"{", "x">>)}}
    \cup {<<ItemIn(Json(Make(GoodDoc, "full")), Raw(<<"{", "x">>))>>}
PairItems ==
    {<<ItemIn(Json(Make(ed, "full")), Json(BatchInfoV)),
       ItemIn(Json(Make(ed, sh)), bi)>> :
        ed \in ExtractedSamples, sh \in Shapes, bi \in MetadataTexts}

\* Outputs of a validation as FailureHandlingNode may be handed them: records
\* with and without title, content and extracted_data, under every status
GivenOutputs ==
    {[kind |-> "output", validated_data |-> Json(ObjV(f)), validation_status |-> st,
      checks |-> TRUE] :
        f \in {[task_id |-> "t1", file_path |-> <<"a", "_", "1">>, extracted_data |-> ed] :
                 ed \in {GoodDoc, ObjV(EmptyDict), ObjV([title |-> StrV(<<"x">>)]),
                         ObjV([content |-> StrV(Chars(10))]), Doc(<<"x">>, Chars(9))}}
              \cup {[task_id |-> "t1", file_path |-> <<"a", "_", "1">>]},
        st \in {"valid", "partial", "invalid", "unknown"}}

\* ------------------------------------------------------------ the machine
Min(a, b) == IF a < b THEN a ELSE b

NoRun == [kind |-> "none"]
NoObs == [fail |-> FALSE, job |-> NoJob, dl |-> FALSE]
NoExec == [obs |-> NoObs, out |-> NoRun]

\* what an execution saw of the external service
Observed(r, fail, j, dlFail) ==
    IF r.queries = 0 THEN NoObs
    ELSE [fail |-> fail, job |-> IF fail THEN NoJob ELSE j,
          dl |-> r.downloads = 1 /\ dlFail]

\* no per-result state exists yet, the failures directory and the collection
\* are empty
NoItems == <<>>
ItemsIdle ==
    /\ items = NoItems
    /\ vout = NoItems
    /\ rout = NoItems
    /\ wout = NoItems
    /\ ledger = NoItems
    /\ db = <<>>
    /\ clock = 0

\* the single-document graph has not been triggered
SyncIdle ==
    /\ sin = EmptyT
    /\ svout = NoRun
    /\ swout = NoRun
    /\ sdb = <<>>

\* no chunk has been planned, parsed or submitted
FrontIdle ==
    /\ cin = [file_paths |-> EmptyT, chunk_size |-> <<>>]
    /\ cout = NoRun
    /\ chunk = EmptyT
    /\ unreadable = {}
    /\ pout = NoRun
    /\ bout = NoRun
    /\ bpout = NoRun
    /\ calls = <<>>
    /\ tries = 0

InitWith(dests) ==
    /\ batch_info \in BatchInfoTexts
    /\ job \in [state : {"JOB_STATE_UNSPECIFIED", "JOB_STATE_PENDING"}, dest : dests]
    /\ pc = "queued"
    /\ polls = 0
    /\ retries = 0
    /\ last = NoExec
    /\ prev = NoExec
    /\ seen = {}
    /\ emitted = <<>>
    /\ spc = "idle"
    /\ splitOut = NoRun
    /\ ItemsIdle
    /\ SyncIdle
    /\ FrontIdle

Init == InitWith(Dests)

\* the batch service moves the job through its lifecycle
NextJobStates(s) ==
    CASE s = "JOB_STATE_UNSPECIFIED" -> {"JOB_STATE_PENDING"}
      [] s = "JOB_STATE_PENDING" -> {"JOB_STATE_RUNNING", "JOB_STATE_CANCELLING"}
      [] s = "JOB_STATE_RUNNING" -> {"JOB_STATE_SUCCEEDED", "JOB_STATE_FAILED",
                                     "JOB_STATE_CANCELLING"}
      [] s = "JOB_STATE_CANCELLING" -> {"JOB_STATE_CANCELLED"}
      [] OTHER -> {}

JobAdvance ==
    /\ \E s \in NextJobStates(job.state) : job' = [job EXCEPT !.state = s]
    /\ UNCHANGED <<batch_info, pc, polls, retries, last, prev, seen, emitted,
                   spc, splitOut>>
    /\ UNCHANGED itemVars
    /\ UNCHANGED <<syncVars, frontVars>>

\* where the way execute ended leaves the polling state: a returned Outputs
\* completes it, ReQueueAfterSignal re-queues it, another exception fails it
\* (faulty variant: the signal raised after a result was returned as well)
AfterRunAlwaysRequeues(r) == IF r.kind = "error" THEN "errored" ELSE "requeued"
AfterRun(r) ==
    CASE r.kind = "output" -> "done"
      [] r.kind = "requeue" -> "requeued"
      [] OTHER -> "errored"

\* the runtime runs PollingNode.execute on the queued polling state
PollExecute ==
    /\ pc = "queued"
    /\ \E fail \in BOOLEAN, dlFail \in BOOLEAN :
         LET r == execute(TaskIdIn, batch_info, fail, job, dlFail)
             o == Observed(r, fail, job, dlFail)
         IN /\ pc' = AfterRun(r)
            /\ last' = [obs |-> o, out |-> r]
            /\ prev' = last
            /\ seen' = seen \cup {<<o, r>>}
            /\ emitted' = IF r.kind = "output"
                          THEN Append(emitted, [task_result |-> r.task_result,
                                                batch_info |-> r.batch_info])
                          ELSE emitted
    /\ polls' = Min(polls + 1, MaxPolls)
    /\ UNCHANGED <<batch_info, job, retries, spc, splitOut>>
    /\ UNCHANGED itemVars
    /\ UNCHANGED <<syncVars, frontVars>>

\* the state manager re-queues the state once the requested delay has passed
Requeue ==
    /\ pc = "requeued"
    /\ pc' = "queued"
    /\ UNCHANGED <<batch_info, job, polls, retries, last, prev, seen, emitted,
                   spc, splitOut>>
    /\ UNCHANGED itemVars
    /\ UNCHANGED <<syncVars, frontVars>>

\* the graph's retry policy re-queues a state whose node raised
Retry ==
    /\ pc = "errored"
    /\ retries < max_retries
    /\ retries' = retries + 1
    /\ pc' = "queued"
    /\ UNCHANGED <<batch_info, job, polls, last, prev, seen, emitted, spc, splitOut>>
    /\ UNCHANGED itemVars
    /\ UNCHANGED <<syncVars, frontVars>>

\* the runtime runs SplitResultsNode.execute on polling's Outputs
SplitExecute ==
    /\ pc = "done"
    /\ spc = "idle"
    /\ \E now \in 0..MaxClock :
         LET in == emitted[Len(emitted)]
             r == split_execute(in.task_result, in.batch_info, now)
         IN /\ splitOut' = r
            /\ spc' = IF r.kind = "output" THEN "done" ELSE "errored"
    /\ UNCHANGED <<batch_info, job, pc, polls, retries, last, prev, seen, emitted>>
    /\ UNCHANGED itemVars
    /\ UNCHANGED <<syncVars, frontVars>>

Next == JobAdvance \/ PollExecute \/ Requeue \/ Retry \/ SplitExecute

Spec == Init /\ [][Next]_vars

\* ------------------------------------------------- the per-result states
\* the wall clock advances
Tick ==
    /\ clock < MaxClock
    /\ clock' = clock + 1
    /\ UNCHANGED <<batch_info, job, pc, polls, retries, last, prev, seen, emitted,
                   spc, splitOut, items, vout, rout, wout, ledger, db>>
    /\ UNCHANGED <<syncVars, frontVars>>

\* the runtime runs ValidationNode.execute on one fanned-out state
ValidateItem ==
    /\ \E k \in DOMAIN items \ DOMAIN vout :
         vout' = vout @@ (k :> validate_execute(items[k].individual_result,
                                                items[k].batch_info, clock))
    /\ UNCHANGED <<batch_info, job, pc, polls, retries, last, prev, seen, emitted,
                   spc, splitOut, items, rout, wout, ledger, db, clock>>
    /\ UNCHANGED <<syncVars, frontVars>>

\* Validation states given their inputs directly (the nodes upstream have
\* completed and play no part)
ItemInitWith(inputs, given) ==
    /\ batch_info = Json(BatchInfoV)
    /\ job = NoJob
    /\ pc = "done"
    /\ polls = 0
    /\ retries = 0
    /\ last = NoExec
    /\ prev = NoExec
    /\ seen = {}
    /\ emitted = <<>>
    /\ spc = "done"
    /\ splitOut = NoRun
    /\ items \in inputs
    /\ vout \in given
    /\ rout = NoItems
    /\ wout = NoItems
    /\ ledger = NoItems
    /\ db = <<>>
    /\ clock = 0

\* (faulty variant: an item is routed as soon as the split has emitted it)
RouteItemUnvalidated ==
    /\ \E k \in DOMAIN items \ DOMAIN rout, ioFail \in BOOLEAN :
         LET r == route_execute("invalid", items[k].batch_info,
                                items[k].individual_result, clock, ioFail, ledger, k)
         IN /\ rout' = rout @@ (k :> r.out)
            /\ ledger' = r.dir
    /\ UNCHANGED <<batch_info, job, pc, polls, retries, last, prev, seen, emitted,
                   spc, splitOut, items, vout, wout, db, clock>>
    /\ UNCHANGED <<syncVars, frontVars>>

\* the runtime runs FailureHandlingNode.execute on the Outputs of a validation
RouteItem ==
    /\ \E k \in DOMAIN vout \ DOMAIN rout, ioFail \in BOOLEAN :
         /\ vout[k].kind = "output"
         /\ LET r == route_execute(vout[k].validation_status, items[k].batch_info,
                                   vout[k].validated_data, clock, ioFail, ledger, k)
            IN /\ rout' = rout @@ (k :> r.out)
               /\ ledger' = r.dir
    /\ UNCHANGED <<batch_info, job, pc, polls, retries, last, prev, seen, emitted,
                   spc, splitOut, items, vout, wout, db, clock>>
    /\ UNCHANGED <<syncVars, frontVars>>

\* the single-document graph handles the validated result of one document
SyncRoute ==
    /\ \E vr \in SyncResults, ioFail \in BOOLEAN :
         ledger' = sync_route_execute(vr, clock, ioFail, ledger).dir
    /\ UNCHANGED <<batch_info, job, pc, polls, retries, last, prev, seen, emitted,
                   spc, splitOut, items, vout, rout, wout, db, clock>>
    /\ UNCHANGED <<syncVars, frontVars>>

ItemInit ==
    ItemInitWith(SingleItems \cup PairItems, {NoItems}) /\ SyncIdle /\ FrontIdle

ItemNext == Tick \/ ValidateItem \/ RouteItem

ItemSpec == ItemInit /\ [][ItemNext]_vars

\* The failures directory written by both graphs: two results of one batch
\* that share a partial document, or one failure_handling state given its
\* inputs directly, and the single-document path beside them
LedgerInit ==
    /\ \/ ItemInitWith({p \in PairItems :
                          ItemIn(Json(Make(Doc(<<>>, Chars(5)), "full")),
                                 Json(BatchInfoV)) = p[1]}, {NoItems})
       \/ ItemInitWith({<<ItemIn(Json(Make(GoodDoc, "full")), Json(BatchInfoV))>>},
                       {<<g>> : g \in GivenOutputs})
    /\ SyncIdle
    /\ FrontIdle

LedgerNext == Tick \/ ValidateItem \/ RouteItem \/ SyncRoute

LedgerSpec == LedgerInit /\ [][LedgerNext]_vars

\* ------------------------------------------------------ the whole fan-out
\* the runtime runs DatabaseWriteNode.execute on the Outputs of a validation
WriteItem ==
    /\ \E k \in DOMAIN vout \ DOMAIN wout, fail \in {"none", "index", "insert"} :
         /\ vout[k].kind = "output"
         /\ LET r == write_execute(vout[k].validated_data, items[k].batch_info,
                                   clock, fail, db, k)
            IN /\ wout' = wout @@ (k :> r.out)
               /\ db' = r.coll
    /\ UNCHANGED <<batch_info, job, pc, polls, retries, last, prev, seen, emitted,
                   spc, splitOut, items, vout, rout, ledger, clock>>
    /\ UNCHANGED <<syncVars, frontVars>>

\* the state manager creates one validation state per Outputs of the split
FanOut ==
    /\ spc = "done"
    /\ items = NoItems
    /\ Len(splitOut.outputs) > 0
    /\ items' = splitOut.outputs
    /\ UNCHANGED <<batch_info, job, pc, polls, retries, last, prev, seen, emitted,
                   spc, splitOut, vout, rout, wout, ledger, db, clock>>
    /\ UNCHANGED <<syncVars, frontVars>>

\* responses that validate as valid, partial and invalid
PipeTexts == {Json(GoodDoc), Raw(Chars(5)), Json(NumV(7))}
PipeDests ==
    {[t |-> "dest", inl |-> [t |-> "list", items |-> <<ItemOk(a, 1), ItemOk(b, 2)>>],
      file |-> "absent", lines |-> <<>>] : a \in PipeTexts, b \in PipeTexts}

\* A job has succeeded with one of the results dests and the polling state
\* has returned them
PolledWith(dests) ==
    /\ batch_info = Json(BatchInfoV)
    /\ job \in [state : {"JOB_STATE_SUCCEEDED"}, dest : dests]
    /\ LET r == execute(TaskIdIn, batch_info, FALSE, job, FALSE)
           o == Observed(r, FALSE, job, FALSE)
       IN /\ pc = AfterRun(r)
          /\ last = [obs |-> o, out |-> r]
          /\ seen = {<<o, r>>}
          /\ emitted = <<[task_result |-> r.task_result, batch_info |-> r.batch_info]>>
    /\ prev = NoExec
    /\ polls = 1
    /\ retries = 0
    /\ spc = "idle"
    /\ splitOut = NoRun
    /\ ItemsIdle
    /\ FrontIdle

\* A job of two documents
PipeInit == PolledWith(PipeDests) /\ SyncIdle

PipeNext == SplitExecute \/ FanOut \/ Tick \/ ValidateItem \/ RouteItem \/ WriteItem

PipeSpec == PipeInit /\ [][PipeNext]_vars

\* ------------------------------------------- both graphs and their stores
\* the runtime executes the database_write state of an item once more
WriteAgain ==
    /\ Len(db) < MaxDocs
    /\ \E k \in DOMAIN wout, fail \in {"none", "index", "insert"} :
         /\ vout[k].kind = "output"
         /\ LET r == write_execute(vout[k].validated_data, items[k].batch_info,
                                   clock, fail, db, k)
            IN /\ wout' = [wout EXCEPT ![k] = r.out]
               /\ db' = r.coll
    /\ UNCHANGED <<batch_info, job, pc, polls, retries, last, prev, seen, emitted,
                   spc, splitOut, items, vout, rout, ledger, clock>>
    /\ UNCHANGED <<syncVars, frontVars>>

\* file_info as SyncProcessingNode returns it for a document answered by
\* text (the prompt it also carries is read by no node downstream)
SyncInfo(task_id, file_path, text) ==
    ObjV([task_id |-> task_id, file_path |-> file_path, status |-> "completed",
          response_content |-> text, usage_metadata |-> UsageA])

\* what the graph is triggered with: documents of two tasks, one of them
\* answered differently or not at all on another run, and damaged text
SyncInfos ==
    {Json(SyncInfo("s1", <<"r", "_", "1">>, Json(GoodDoc))),
     Json(SyncInfo("s1", <<"r", "_", "1">>, Raw(LongText))),
     Json(ObjV([task_id |-> "s1", file_path |-> <<"r", "_", "1">>,
                status |-> "failed", error |-> "No response received from Gemini"])),
     Json(SyncInfo("s2", <<"r", "2">>, Json(GoodDoc))),
     Raw(<<"{", "x">>)}

\* the single-document graph is triggered for another document
SyncTrigger ==
    /\ swout # NoRun
    /\ sin' \in SyncInfos
    /\ svout' = NoRun
    /\ swout' = NoRun
    /\ UNCHANGED <<pollVars, itemVars, sdb, frontVars>>

\* the runtime runs the sync ValidationNode.execute
SyncValidate ==
    /\ sin # EmptyT
    /\ svout = NoRun
    /\ svout' = sync_validate_execute(sin, clock)
    /\ UNCHANGED <<pollVars, itemVars, sin, swout, sdb, frontVars>>

\* the runtime runs the sync DatabaseWriteNode.execute on the Outputs of the
\* validation, a first time or once more
SyncWrite ==
    /\ svout.kind = "output"
    /\ Len(sdb) < MaxDocs
    /\ \E fail \in BOOLEAN :
         LET r == sync_write_execute(svout.validated_result, svout.file_info,
                                     clock, fail, sdb)
         IN /\ swout' = r.out
            /\ sdb' = r.coll
    /\ UNCHANGED <<pollVars, itemVars, sin, svout, frontVars>>

\* One answer of the service (a good document, a document without title, a
\* number, plain text) reaches both graphs: as the only result of a succeeded
\* batch job, and as the response of the single-document call
DbInit ==
    \E x \in {Json(GoodDoc), Json(Doc(<<>>, Chars(5))), Json(NumV(7)), Raw(LongText)} :
        /\ PolledWith({[t |-> "dest", inl |-> [t |-> "list", items |-> <<ItemOk(x, 1)>>],
                        file |-> "absent", lines |-> <<>>]})
        /\ sin = Json(SyncInfo("s1", <<"r", "_", "1">>, x))
        /\ svout = NoRun
        /\ swout = NoRun
        /\ sdb = <<>>

DbNext ==
    \/ SplitExecute \/ FanOut \/ Tick \/ ValidateItem \/ WriteItem \/ WriteAgain
    \/ SyncValidate \/ SyncWrite

DbSpec == DbInit /\ [][DbNext]_vars

\* The single-document graph alone, triggered time and again
UpsertInit ==
    /\ ItemInitWith({NoItems}, {NoItems})
    /\ sin \in SyncInfos
    /\ svout = NoRun
    /\ swout = NoRun
    /\ sdb = <<>>
    /\ FrontIdle

UpsertNext == Tick \/ SyncValidate \/ SyncWrite \/ SyncTrigger

UpsertSpec == UpsertInit /\ [][UpsertNext]_vars

\* ------------------------------------------------------ planning the chunks
\* n paths
Paths(n) == [i \in 1..n |-> ToString(i)]

\* Inputs.file_paths: lists of up to MaxPaths paths, a list naming a path
\* twice, and texts that are no list
PathTexts ==
    {Json(ListV(Paths(n))) : n \in 0..MaxPaths}
        \cup {Json(ListV(<<"1", "2", "1">>)), Json(StrV(<<"a", "b", "c">>)),
              Json(NumV(7)), Json(ObjV(EmptyDict)), Json(ObjV([a |-> NumV(1)])),
              Raw(<<"{", "x">>), EmptyT}

\* Inputs.chunk_size: sizes from 1 up, zero, negative sizes and texts that
\* are no integer
SizeTexts ==
    {<<"1">>, <<"2">>, <<"3">>, <<"5">>, <<"1", "2">>, <<"1", "3">>, <<"2", "0">>,
     <<" ", "5", "\n">>, <<"+", "4">>, <<"0", "7">>,
     <<"0">>, <<"-", "0">>, <<"-", "1">>, <<"-", "5">>,
     <<>>, <<"a">>, <<"2", ".", "5">>, <<"-">>, <<"5", " ", "5">>}

\* the runtime runs ChunkingNode.execute
ChunkExecute ==
    /\ cout = NoRun
    /\ cout' = chunk_execute(cin.file_paths, cin.chunk_size)
    /\ UNCHANGED <<pollVars, itemVars, syncVars>>
    /\ UNCHANGED <<cin, chunk, unreadable, pout, bout, bpout, calls, tries>>

\* A chunking state as created from the paths of the CSV and the configured
\* chunk size
ChunkInit ==
    /\ ItemInitWith({NoItems}, {NoItems})
    /\ SyncIdle
    /\ cin \in [file_paths : PathTexts, chunk_size : SizeTexts]
    /\ cout = NoRun
    /\ chunk = EmptyT
    /\ unreadable = {}
    /\ pout = NoRun
    /\ bout = NoRun
    /\ bpout = NoRun
    /\ calls = <<>>
    /\ tries = 0

ChunkNext == ChunkExecute

ChunkSpec == ChunkInit /\ [][ChunkNext]_vars

\* -------------------------------------------------- submitting one chunk
\* store.prompt
Prompt == "Extract key information from this document"

\* the paths of the chunk, when it is a JSON list
ChunkPaths == IF JsonLoads(chunk).ok /\ JsonLoads(chunk).v.t = "list"
              THEN JsonLoads(chunk).v.xs ELSE <<>>

\* the runtime runs FileParsingNode.execute on the chunk
ParseChunk ==
    /\ pout = NoRun
    /\ pout' = parse_execute(chunk, unreadable, "u1")
    /\ UNCHANGED <<pollVars, itemVars, syncVars>>
    /\ UNCHANGED <<cin, cout, chunk, unreadable, bout, bpout, calls, tries>>

\* the runtime runs BatchRequestNode.execute on the Outputs of the parsing
SubmitChunk ==
    /\ pout.kind = "output"
    /\ bout = NoRun
    /\ \E fail \in BOOLEAN :
         LET r == request_execute(pout.parsed_files, pout.task_id, Prompt, fail, calls)
         IN /\ bout' = r.out
            /\ calls' = r.calls
    /\ UNCHANGED <<pollVars, itemVars, syncVars>>
    /\ UNCHANGED <<cin, cout, chunk, unreadable, pout, bpout, tries>>

\* the graph's retry policy runs the batch_request state again after its node
\* raised
RetrySubmit ==
    /\ bout.kind = "error"
    /\ tries < max_retries
    /\ tries' = tries + 1
    /\ \E fail \in BOOLEAN :
         LET r == request_execute(pout.parsed_files, pout.task_id, Prompt, fail, calls)
         IN /\ bout' = r.out
            /\ calls' = r.calls
    /\ UNCHANGED <<pollVars, itemVars, syncVars>>
    /\ UNCHANGED <<cin, cout, chunk, unreadable, pout, bpout>>

\* a graph that uses the registered BatchProcessingNode runs it on the chunk
ProcessChunk ==
    /\ bpout = NoRun
    /\ \E fail \in BOOLEAN :
         LET r == processing_execute(chunk, Prompt, unreadable, "u2", fail, calls)
         IN /\ bpout' = r.out
            /\ calls' = r.calls
    /\ UNCHANGED <<pollVars, itemVars, syncVars>>
    /\ UNCHANGED <<cin, cout, chunk, unreadable, pout, bout, tries>>

\* One chunk of up to MaxFiles paths as the chunking emits it, or a damaged
\* text, some of its files unreadable
SubmitInit ==
    /\ ItemInitWith({NoItems}, {NoItems})
    /\ SyncIdle
    /\ cin = [file_paths |-> EmptyT, chunk_size |-> <<>>]
    /\ cout = NoRun
    /\ chunk \in {Json(ListV(Paths(n))) : n \in 1..MaxFiles}
                     \cup {Json(NumV(7)), Raw(<<"{", "x">>)}
    /\ unreadable \in SUBSET {ChunkPaths[k] : k \in 1..Len(ChunkPaths)}
    /\ pout = NoRun
    /\ bout = NoRun
    /\ bpout = NoRun
    /\ calls = <<>>
    /\ tries = 0

SubmitNext == ParseChunk \/ SubmitChunk \/ RetrySubmit \/ ProcessChunk

SubmitSpec == SubmitInit /\ [][SubmitNext]_vars

\* ------------------------------------------------------ the whole batch graph
\* from the polling state on: a job of two documents answered inline (one
\* good document, one short text), or a job that leaves nothing to read
FlowInit ==
    InitWith({[t |-> "dest",
               inl |-> [t |-> "list",
                        items |-> <<ItemOk(Json(GoodDoc), 1), ItemOk(Raw(Chars(5)), 2)>>],
               file |-> "absent", lines |-> <<>>],
              [t |-> "dest", inl |-> [t |-> "absent"], file |-> "absent",
               lines |-> <<>>]})

FlowNext ==
    \/ JobAdvance \/ PollExecute \/ Requeue \/ Retry \/ SplitExecute \/ FanOut
    \/ Tick \/ ValidateItem \/ RouteItem \/ WriteItem

FlowSpec == FlowInit /\ [][FlowNext]_vars

\* ------------------------------------------ each stage on its own inputs
\* One stage of the batch graph handed its inputs directly, texts that are
\* not JSON among them: the polling state queued, or the split's state, or
\* the write and routing states of two validated results
StageInit ==
    /\ \/ /\ batch_info \in BatchInfoTexts
          /\ job \in [state : {"JOB_STATE_PENDING", "JOB_STATE_SUCCEEDED"},
                      dest : {[t |-> "dest",
                               inl |-> [t |-> "list",
                                        items |-> <<ItemOk(Json(GoodDoc), 1)>>],
                               file |-> "absent", lines |-> <<>>]}]
          /\ pc = "queued"
          /\ emitted = <<>>
          /\ spc = "idle"
          /\ items = NoItems
          /\ vout = NoItems
       \/ /\ batch_info = Json(BatchInfoV)
          /\ job = NoJob
          /\ pc = "done"
          /\ \E tr \in {JsonDumps(ObjV([task_id |-> TaskIdIn, status |-> "completed",
                                        results |-> <<InlineResult(
                                                        ItemOk(Json(GoodDoc), 1))>>])),
                        Raw(<<"{", "x">>), EmptyT},
                bi \in BatchInfoTexts \cup {EmptyT} :
                emitted = <<[task_result |-> tr, batch_info |-> bi]>>
          /\ spc = "idle"
          /\ items = NoItems
          /\ vout = NoItems
       \/ /\ batch_info = Json(BatchInfoV)
          /\ job = NoJob
          /\ pc = "done"
          /\ emitted = <<>>
          /\ spc = "done"
          /\ items \in {<<ItemIn(Json(Make(GoodDoc, "full")), bi),
                          ItemIn(Json(Make(GoodDoc, "full")), Json(BatchInfoV))>> :
                          bi \in BatchInfoTexts \cup {EmptyT}}
          /\ vout \in {<<[kind |-> "output", validated_data |-> vd,
                          validation_status |-> st, checks |-> TRUE], g>> :
                          vd \in {Raw(<<"{", "x">>), EmptyT,
                                  Json(ObjV([task_id |-> "t1",
                                             file_path |-> <<"a", "_", "1">>,
                                             extracted_data |-> GoodDoc,
                                             validation_status |-> "partial"]))},
                          st \in {"valid", "partial", "invalid"},
                          g \in {h \in GivenOutputs :
                                   /\ h.validation_status = "invalid"
                                   /\ "extracted_data" \notin
                                          DOMAIN JsonLoads(h.validated_data).v.f}}
    /\ polls = 0
    /\ retries = 0
    /\ last = NoExec
    /\ prev = NoExec
    /\ seen = {}
    /\ splitOut = NoRun
    /\ rout = NoItems
    /\ wout = NoItems
    /\ ledger = NoItems
    /\ db = <<>>
    /\ clock = 0
    /\ SyncIdle
    /\ FrontIdle

StageNext ==
    \/ PollExecute \/ Requeue \/ Retry \/ SplitExecute \/ FanOut
    \/ Tick \/ RouteItem \/ WriteItem

StageSpec == StageInit /\ [][StageNext]_vars

\* The same machine under the scheduling the runtime provides: a queued state
\* is executed, a requeued state is queued again when its delay has passed, a
\* failed state is retried while the retry policy allows.  One job per way
\* get_task_results can go.
LiveDests ==
    {NoDest,
     [t |-> "dest", inl |-> [t |-> "list", items |-> FiveInline], file |-> "absent",
      lines |-> <<>>],
     [t |-> "dest", inl |-> [t |-> "none"], file |-> "named",
      lines |-> <<Json(LineEntryA)>>],
     [t |-> "dest", inl |-> [t |-> "absent"], file |-> "named",
      lines |-> <<Json(LineEntryA), Json(LineEntryB)>>],
     [t |-> "dest", inl |-> [t |-> "absent"], file |-> "named",
      lines |-> <<Raw(<<"{", "x">>)>>],
     [t |-> "dest", inl |-> [t |-> "absent"], file |-> "absent", lines |-> <<>>]}

LiveInit == InitWith(LiveDests)

LiveSpec ==
    /\ LiveInit
    /\ [][Next]_vars
    /\ WF_vars(PollExecute)
    /\ WF_vars(Requeue)
    /\ WF_vars(Retry)

\* ------------------------------------------------------------ properties
Ran == last.out.kind # "none"

\* The most recent execution asked the service for the status and got an answer.
Answered == Ran /\ last.out.queries = 1 /\ ~last.obs.fail

\* C1: the status code the service answered is mapped pending -> Pending,
\* running -> Processing, succeeded -> Completed, failed -> Failed,
\* cancelling -> Processing, cancelled -> Failed.
C1_StatusMapping ==
    Answered =>
        LET code == last.obs.job.state
            m == last.out.mapped
        IN /\ code = "JOB_STATE_PENDING" => m = "pending"
           /\ code = "JOB_STATE_RUNNING" => m = "processing"
           /\ code = "JOB_STATE_SUCCEEDED" => m = "completed"
           /\ code = "JOB_STATE_FAILED" => m = "failed"
           /\ code = "JOB_STATE_CANCELLING" => m = "processing"
           /\ code = "JOB_STATE_CANCELLED" => m = "failed"

C1_Witness ==
    Answered /\ last.obs.job.state = "JOB_STATE_CANCELLED" /\ last.out.mapped = "failed"

\* C2: an execution whose mapped state is Pending or Processing ends by raising
\* the requeue signal with a delay of exactly 30 seconds, returns no Outputs,
\* and has asked the service for the status once and downloaded nothing.
C2_NonTerminalRequeues ==
    [][(pc = "queued" /\ pc' # "queued"
        /\ last'.out.mapped \in {"pending", "processing"})
       => /\ last'.out.kind = "requeue"
          /\ last'.out.delay = 30
          /\ last'.out.queries = 1
          /\ last'.out.downloads = 0
          /\ emitted' = emitted
          /\ pc' = "requeued"]_vars

C2_Witness ==
    pc = "requeued" /\ last.out.mapped = "processing" /\ last.out.delay = 30

\* C3: how an execution ends is a function of its inputs and of what it
\* observed of the service: over the whole history of a job, two executions
\* with the same observation end the same way, whatever came before them.
C3_Stateless ==
    \A a \in seen : \A b \in seen : a[1] = b[1] => a[2] = b[2]

\* the same observation made again on a later check, after a different one
C3_Witness ==
    /\ polls >= 3
    /\ prev.obs = last.obs
    /\ Cardinality(seen) >= 2
    /\ last.out.kind = "requeue"

C5_ResultRetrieval ==
    (Answered /\ last.out.mapped = "completed") =>
        LET d == last.obs.job.dest
            inlineList == d.t = "dest" /\ d.inl.t = "list"
            fileNamed == d.t = "dest" /\ d.file = "named"
        IN /\ inlineList => last.out.src = "inline"
           /\ (~inlineList /\ fileNamed) => last.out.src = "file"
           /\ (~inlineList /\ ~fileNamed) =>
                 /\ last.out.kind = "output"
                 /\ LET f == JsonLoads(last.out.task_result).v.f
                    IN /\ f.status = "failed"
                       /\ "error" \in DOMAIN f
                       /\ f.results = <<>>

\* C6: an execution whose status call failed returns the Failed result; it
\* neither raises the requeue signal nor raises the error.
C6_TransportFailureIsFailed ==
    (Ran /\ last.obs.fail) =>
        /\ last.out.kind = "output"
        /\ last.out.task_result = Json(ObjV([error |-> "Task failed"]))
        /\ pc = "done"
        /\ emitted = <<[task_result |-> last.out.task_result,
                        batch_info |-> batch_info]>>

C6_Witness == Ran /\ last.obs.fail /\ pc = "done" /\ polls >= 2

\* C7 as stated: once the job stays succeeded, failed or cancelled, a terminal
\* completed or failed result is eventually returned.
C7_PollLiveness ==
    (<>[](job.state \in FinalStates)) => <>(Len(emitted) > 0)

\* C7 as amended: once the job stays succeeded, failed or cancelled, the
\* polling eventually ends, with a terminal result returned or with an
\* exception raised by the execution.
C7_PollEnds ==
    (<>[](job.state \in FinalStates)) => <>(Len(emitted) > 0 \/ pc = "errored")

C7_Witness ==
    /\ job.state \in FinalStates
    /\ pc = "done"
    /\ prev.out.kind = "requeue"
    /\ last.out.kind = "output"
    /\ Len(emitted) = 1

\* the input SplitResultsNode ran on, and what it made of it
SplitRan == spc # "idle"
SplitTaskResult == JsonLoads(emitted[Len(emitted)].task_result).v.f
SplitResults == Get(SplitTaskResult, "results", <<>>)
IndividualResult(k) == JsonLoads(splitOut.outputs[k].individual_result).v.f

\* C8: split of a job result with zero results, or with no results list,
\* returns the empty sequence and raises nothing.
C8_SplitNoOp ==
    (SplitRan /\ Len(SplitResults) = 0) =>
        /\ splitOut.kind = "output"
        /\ splitOut.outputs = <<>>
        /\ spc = "done"

C8_Witness ==
    /\ SplitRan
    /\ "results" \in DOMAIN SplitTaskResult
    /\ SplitTaskResult.status = "completed"
    /\ Len(SplitResults) = 0
    /\ splitOut.kind = "output"

\* C9: split of N result entries returns N individual results in input order,
\* the k-th one built from the k-th entry, with result_index 0..N-1.
C9_SplitIndices ==
    (SplitRan /\ Len(SplitResults) > 0) =>
        /\ splitOut.kind = "output"
        /\ Len(splitOut.outputs) = Len(SplitResults)
        /\ \A k \in 1..Len(SplitResults) :
              /\ IndividualResult(k).result_index = k - 1
              /\ "response_id" \in DOMAIN SplitResults[k].f =>
                    IndividualResult(k).response_id = SplitResults[k].f.response_id
              /\ "content" \in DOMAIN SplitResults[k].f
                 /\ SplitResults[k].f.content.k = "json" =>
                    IndividualResult(k).extracted_data = SplitResults[k].f.content.v
        /\ {IndividualResult(k).result_index : k \in 1..Len(splitOut.outputs)}
              = 0..(Len(SplitResults) - 1)

C9_Witness ==
    /\ SplitRan
    /\ Len(SplitResults) = 5
    /\ splitOut.kind = "output"
    /\ [k \in 1..5 |-> IndividualResult(k).result_index] = <<0, 1, 2, 3, 4>>

\* C10: split does not fail on a payload: a payload that parses becomes
\* extracted_data as parsed, a non-empty payload that does not parse is wrapped
\* with the raw text under content and the title "Document", an empty or
\* missing payload is replaced by the "Empty Response" record.
C10_PayloadHandling ==
    (SplitRan /\ Len(SplitResults) > 0) =>
        /\ splitOut.kind = "output"
        /\ \A k \in 1..Len(SplitResults) :
              LET c == Get(SplitResults[k].f, "content", EmptyT)
                  ed == IndividualResult(k).extracted_data
              IN /\ c.k = "json" => ed = c.v
                 /\ c.k = "raw" =>
                       /\ ed.t = "obj"
                       /\ ed.f.content = StrV(c.s)
                       /\ ed.f.title = StrV(<<"D", "o", "c", "u", "m", "e", "n", "t">>)
                 /\ c.k = "empty" =>
                       /\ ed.t = "obj"
                       /\ ed.f.title = StrV(EmptyTitle)
                       /\ ed.f.content = StrV(EmptyBody)

C10_Witness ==
    /\ SplitRan
    /\ splitOut.kind = "output"
    /\ \E k \in 1..Len(SplitResults) :
          /\ Get(SplitResults[k].f, "content", EmptyT).k = "raw"
          /\ IndividualResult(k).extracted_data.f.content = StrV(LongText)
    /\ \E k \in 1..Len(SplitResults) :
          Get(SplitResults[k].f, "content", EmptyT).k = "empty"
    /\ \E k \in 1..Len(SplitResults) :
          Get(SplitResults[k].f, "content", EmptyT).k = "json"


\* ------------------------------------------------ properties: validation
Parses(k) ==
    JsonLoads(items[k].individual_result).ok /\ JsonLoads(items[k].batch_info).ok
ItemResult(k) == JsonLoads(items[k].individual_result).v
IsObject(k) == Parses(k) /\ ItemResult(k).t = "obj"
Returned(k) == k \in DOMAIN vout /\ vout[k].kind = "output"
ValidatedData(k) == JsonLoads(vout[k].validated_data).v.f

\* a required field is missing or of the wrong type, or extracted_data lacks
\* a string title or a string content
RequiredFieldBad(ir) ==
    \/ \E n \in {"task_id", "status", "file_path"} :
         n \notin DOMAIN ir.f \/ n \in Mistyped(ir)
    \/ "extracted_data" \notin DOMAIN ir.f
    \/ ir.f.extracted_data.t # "obj"
    \/ \E n \in {"title", "content"} :
         \/ n \notin DOMAIN ir.f.extracted_data.f
         \/ ir.f.extracted_data.f[n].t # "str"

\* the length of s without the whitespace at its two ends
TrimmedLen(s) ==
    LET solid == {n \in 1..Len(s) : ~IsSpace(s[n])}
    IN IF solid = {} THEN 0
       ELSE (CHOOSE hi \in solid : \A n \in solid : n <= hi)
            - (CHOOSE lo \in solid : \A n \in solid : lo <= n) + 1

\* C12: an individual result that fails the schema (a required field missing
\* or of the wrong type, extracted_data without a string title or content) is
\* classified invalid, its record carries the failure description, and the
\* checks that follow the schema did not run.
C12_SchemaFailure ==
    \A k \in DOMAIN vout :
        IsObject(k) /\ RequiredFieldBad(ItemResult(k)) =>
            /\ Returned(k)
            /\ vout[k].validation_status = "invalid"
            /\ ValidatedData(k).validation_status = "invalid"
            /\ "error" \in DOMAIN ValidatedData(k)
            /\ ValidatedData(k).error # {}
            /\ ~vout[k].checks

C12_Witness ==
    \E k \in DOMAIN vout :
        /\ IsObject(k)
        /\ "extracted_data" \in DOMAIN ItemResult(k).f
        /\ ItemResult(k).f.extracted_data.t = "obj"
        /\ "title" \notin DOMAIN ItemResult(k).f.extracted_data.f
        /\ vout[k].validation_status = "invalid"

\* C13: an individual result that passed the schema is partial when its title
\* or its content is empty, partial when its trimmed content has fewer than
\* 10 characters, and valid otherwise.
C13_Heuristics ==
    \A k \in DOMAIN vout :
        IsObject(k) /\ SchemaViolations(ItemResult(k)) = {} =>
            LET title == ItemResult(k).f.extracted_data.f.title.s
                content == ItemResult(k).f.extracted_data.f.content.s
            IN /\ Returned(k)
               /\ vout[k].validation_status =
                     IF Len(title) = 0 \/ Len(content) = 0 THEN "partial"
                     ELSE IF TrimmedLen(content) < 10 THEN "partial"
                     ELSE "valid"
               /\ ValidatedData(k).validation_status = vout[k].validation_status

\* a titled record whose content has 10 characters or more, fewer once trimmed
C13_Witness ==
    \E k \in DOMAIN vout :
        /\ IsObject(k)
        /\ SchemaViolations(ItemResult(k)) = {}
        /\ Len(ItemResult(k).f.extracted_data.f.title.s) > 0
        /\ Len(ItemResult(k).f.extracted_data.f.content.s) >= 10
        /\ vout[k].validation_status = "partial"

\* C14: validate raises only when an input is not parseable JSON; for inputs
\* that parse it returns valid, partial or invalid.
C14_RaisesOnlyOnUnparseable ==
    \A k \in DOMAIN vout :
        /\ vout[k].kind = "error" => ~Parses(k)
        /\ Parses(k) =>
              /\ Returned(k)
              /\ vout[k].validation_status \in {"valid", "partial", "invalid"}

\* every field the schema types is, where present, of its type, and the
\* required ones other than extracted_data are present
OtherFieldsConform(ir) ==
    /\ {"task_id", "status", "file_path"} \subseteq DOMAIN ir.f
    /\ Mistyped(ir) \cap DOMAIN ir.f = {}
    /\ "batch_info" \in DOMAIN ir.f => ir.f.batch_info.t = "obj"

SameExtractedData(j, k) ==
    /\ IsObject(j) /\ IsObject(k)
    /\ "extracted_data" \in DOMAIN ItemResult(j).f
    /\ "extracted_data" \in DOMAIN ItemResult(k).f
    /\ ItemResult(j).f.extracted_data = ItemResult(k).f.extracted_data

\* C15 as stated: two individual results with equal extracted_data receive the
\* same classification whatever their other fields.
C15_SameDataSameClass ==
    \A j \in DOMAIN vout, k \in DOMAIN vout :
        SameExtractedData(j, k) =>
            /\ Returned(j) /\ Returned(k)
            /\ vout[j].validation_status = vout[k].validation_status

\* C15: two individual results with equal extracted_data whose other schema
\* fields are present where required and of their types receive the same
\* classification, whatever the values of those fields, the batch metadata
\* and the time of the validation.
C15_Deterministic ==
    \A j \in DOMAIN vout, k \in DOMAIN vout :
        /\ SameExtractedData(j, k)
        /\ OtherFieldsConform(ItemResult(j))
        /\ OtherFieldsConform(ItemResult(k))
        => /\ Returned(j) /\ Returned(k)
           /\ vout[j].validation_status = vout[k].validation_status

\* two validated results of different tasks, batches and validation times
C15_Witness ==
    /\ DOMAIN vout = {1, 2}
    /\ SameExtractedData(1, 2)
    /\ OtherFieldsConform(ItemResult(1))
    /\ OtherFieldsConform(ItemResult(2))
    /\ ItemResult(1).f.task_id # ItemResult(2).f.task_id
    /\ items[1].batch_info # items[2].batch_info
    /\ ValidatedData(1).validation_timestamp # ValidatedData(2).validation_timestamp
    /\ vout[1].validation_status = "valid"
    /\ vout[2].validation_status = "valid"


\* --------------------------------------------- properties: failure routing
Routed(k) == k \in DOMAIN rout /\ rout[k].kind = "output"

\* the rows of the files written by the batch graph
BatchRows ==
    UNION {{ledger[p][i] : i \in 1..Len(ledger[p])} :
             p \in {q \in DOMAIN ledger : q[2] # "failed_files"}}

\* C16: route on a record whose validation_status is valid appends nothing to
\* the ledger and creates no ledger file; it reports an empty ledger path and
\* a retry count of 0.
C16_ValidNoOp ==
    [][\A k \in DOMAIN vout :
          /\ k \notin DOMAIN rout
          /\ k \in DOMAIN rout'
          /\ vout[k].validation_status = "valid"
          => /\ ledger' = ledger
             /\ rout'[k].kind = "output"
             /\ rout'[k].failure_csv_path = <<>>
             /\ rout'[k].retry_count = "0"]_vars

\* a valid record has been routed, beside a ledger that holds a file
C16_Witness ==
    \E k \in DOMAIN rout :
        /\ Routed(k)
        /\ vout[k].validation_status = "valid"
        /\ DOMAIN ledger # {}

\* the reason the specification gives for a non-valid record
ReasonFor(status, record) ==
    IF status = "invalid" THEN "schema_validation_failed"
    ELSE LET ed == IF "extracted_data" \in DOMAIN record
                   THEN record.extracted_data.f ELSE EmptyDict
         IN IF "title" \notin DOMAIN ed \/ Len(ed.title.s) = 0 THEN "missing_title"
            ELSE IF "content" \notin DOMAIN ed \/ Len(ed.content.s) = 0
            THEN "missing_content"
            ELSE IF TrimmedLen(ed.content.s) < 10 THEN "content_too_short"
            ELSE "validation_failed"

\* C17: the row route writes for a non-valid record has failure_reason
\* schema_validation_failed when the status is invalid, and for partial the
\* first that applies of missing_title (title empty or absent),
\* missing_content (content empty or absent), content_too_short (trimmed
\* content shorter than 10 characters), validation_failed.
C17_FailureReason ==
    \A row \in BatchRows :
        vout[row.by].validation_status \in {"invalid", "partial"} =>
            row.failure_reason = ReasonFor(vout[row.by].validation_status,
                                           ValidatedData(row.by))

\* the last of the reasons has been written
C17_Witness ==
    \E row \in BatchRows :
        /\ vout[row.by].validation_status = "partial"
        /\ row.failure_reason = "validation_failed"

\* C18: for an individual result classified by validate and routed with that
\* classification the reason is schema_validation_failed exactly when the
\* result failed the schema, missing_title when it passed with an empty
\* title, content_too_short when the title is not empty and the trimmed
\* content has 1 to 9 characters, and never validation_failed or
\* unknown_failure.
C18_ValidateThenRoute ==
    \A row \in BatchRows :
        LET ir == ItemResult(row.by)
            passed == SchemaViolations(ir) = {}
        IN /\ (row.failure_reason = "schema_validation_failed") <=> ~passed
           /\ (passed /\ Len(ir.f.extracted_data.f.title.s) = 0)
                 => row.failure_reason = "missing_title"
           /\ (/\ passed
               /\ Len(ir.f.extracted_data.f.title.s) > 0
               /\ TrimmedLen(ir.f.extracted_data.f.content.s) \in 1..9)
                 => row.failure_reason = "content_too_short"
           /\ row.failure_reason \notin {"validation_failed", "unknown_failure"}

\* a result with title "" and a content of five characters has been routed
C18_Witness ==
    \E row \in BatchRows :
        /\ SchemaViolations(ItemResult(row.by)) = {}
        /\ Len(ItemResult(row.by).f.extracted_data.f.title.s) = 0
        /\ Len(ItemResult(row.by).f.extracted_data.f.content.s) = 5
        /\ row.failure_reason = "missing_title"

\* C19: the ledger is append-only: a step keeps every file of the ledger and
\* every row of it.
C19_AppendOnly ==
    [][\A p \in DOMAIN ledger :
          /\ p \in DOMAIN ledger'
          /\ Len(ledger'[p]) >= Len(ledger[p])
          /\ SubSeq(ledger'[p], 1, Len(ledger[p])) = ledger[p]]_vars


\* ------------------------------------------------- properties: the fan-out
SplitEmitted == spc = "done" /\ splitOut.kind = "output"
SplitInputInfo == JsonLoads(emitted[Len(emitted)].batch_info).v

\* state k has written its document, and the collection holds it
OwnDocument(k) ==
    \E n \in 1..Len(db) :
        /\ db[n].by = k
        /\ db[n].processing_status = vout[k].validation_status
        /\ db[n].batch_info = SplitInputInfo

\* C11: every Outputs of the split carries, as a text of its own and inside
\* its individual result, metadata equal to the split's input metadata; the
\* validation status of an item is the one its own individual result gets,
\* its successful write leaves its own document, and neither is changed by
\* what a sibling does afterwards (returning, failing, in any order).
C11_IndependentItems ==
    /\ [](SplitEmitted =>
            \A k \in 1..Len(splitOut.outputs) :
                /\ JsonLoads(splitOut.outputs[k].batch_info).v = SplitInputInfo
                /\ JsonLoads(splitOut.outputs[k].individual_result).v.f.batch_info
                      = SplitInputInfo
                /\ Returned(k) =>
                      vout[k].validation_status =
                          validate_execute(splitOut.outputs[k].individual_result,
                                           emitted[Len(emitted)].batch_info,
                                           0).validation_status
                /\ (k \in DOMAIN wout /\ wout[k].kind = "output"
                        /\ wout[k].write_status = "success") => OwnDocument(k))
    /\ [][/\ \A k \in DOMAIN vout : vout'[k] = vout[k]
          /\ \A k \in DOMAIN wout : wout'[k] = wout[k]
          /\ \A k \in DOMAIN items : items'[k] = items[k]]_vars

\* both items are through validation and write, one written and one not,
\* and their classifications differ
C11_Witness ==
    /\ DOMAIN wout = {1, 2}
    /\ Returned(1) /\ Returned(2)
    /\ vout[1].validation_status # vout[2].validation_status
    /\ wout[1].kind = "error"
    /\ wout[2].kind = "output" /\ wout[2].write_status = "success"
    /\ OwnDocument(2)
    /\ 1 \in DOMAIN rout /\ rout[1].kind = "error"

\* every item of the batch has been validated and routed
AllRouted ==
    /\ DOMAIN items # {}
    /\ \A k \in DOMAIN items : Returned(k) /\ Routed(k)

\* the entries of the ledger written for item k
EntriesOf(k) ==
    {e \in UNION {{<<p, i>> : i \in 1..Len(ledger[p])} : p \in DOMAIN ledger} :
        ledger[e[1]][e[2]].by = k}

\* C20: once every item of the batch is validated and routed the ledger
\* holds exactly one entry for each non-valid record and none for a valid one.
C20_OneEntryPerFailure ==
    AllRouted =>
        \A k \in DOMAIN items :
            Cardinality(EntriesOf(k)) =
                IF vout[k].validation_status = "valid" THEN 0 ELSE 1

\* C21: a write whose inputs parse and which stored nothing, because a
\* database operation of it failed, returns write_status failed with
\* record_count 0 instead of raising.
C21_WriteFailureReported ==
    [][\A k \in DOMAIN wout' \ DOMAIN wout :
         (db' = db /\ JsonLoads(vout[k].validated_data).ok
                   /\ JsonLoads(items[k].batch_info).ok) =>
             wout'[k] = [kind |-> "output", write_status |-> "failed",
                         record_count |-> "0"]]_vars

\* C22: whatever the sync write returned last is an Outputs whose
\* write_status tells how the upsert went; a failed upsert is not raised.
C22_UpsertFailureReported ==
    swout # NoRun =>
        /\ swout.kind = "output"
        /\ swout.write_status \in {"success", "failed"}

\* the record a batch-path write has stored is stored once
StoredOnce(k) == Cardinality({n \in 1..Len(db) : db[n].by = k}) <= 1

\* C23: however often the write of a validated record is executed, the
\* collection holds the documents one execution leaves: at most one for it.
C23_WriteIdempotent == \A k \in DOMAIN wout : StoredOnce(k)

\* the validated result the sync write is given
SyncRecord == JsonLoads(svout.validated_result).v.f
Holds(coll, task_id) == \E n \in 1..Len(coll) : coll[n].task_id = task_id

\* C24: the sync collection never holds two documents of one task_id, and a
\* write for a task_id it holds changes that document alone: the fields take
\* the values of the record written, created_at stays, no document is added.
C24_UpsertByTaskId ==
    /\ [](\A m, n \in 1..Len(sdb) : sdb[m].task_id = sdb[n].task_id => m = n)
    /\ [][(swout' # NoRun /\ swout'.kind = "output" /\ swout' # swout
             /\ Holds(sdb, SyncRecord.task_id)) =>
            /\ Len(sdb') = Len(sdb)
            /\ \A n \in 1..Len(sdb) :
                 IF sdb[n].task_id = SyncRecord.task_id
                 THEN /\ sdb'[n].created_at = sdb[n].created_at
                      /\ sdb'[n].updated_at = clock
                      /\ sdb'[n].status = SyncRecord.status
                      /\ sdb'[n].file_path = SyncRecord.file_path
                      /\ sdb'[n].validation_timestamp = SyncRecord.validation_timestamp
                      /\ sdb'[n].extracted_data =
                             Get(SyncRecord, "extracted_data", ObjV(EmptyDict))
                 ELSE sdb'[n] = sdb[n]]_vars
\* a document written at time 0 and overwritten at time 1 by a failed run,
\* beside the document of another task
C24_Witness ==
    /\ Len(sdb) = 2
    /\ \E n \in 1..2 :
         /\ sdb[n].created_at = 0
         /\ sdb[n].updated_at = 1
         /\ sdb[n].status = "failed"

\* the answer both graphs were given
SameAnswer ==
    /\ JsonLoads(sin).ok
    /\ Len(splitOut.outputs) = 1
    /\ Get(JsonLoads(sin).v.f, "response_content", EmptyT) =
           job.dest.inl.items[1].text
BothPersisted ==
    /\ 1 \in DOMAIN wout
    /\ wout[1].kind = "output"
    /\ wout[1].write_status = "success"
    /\ swout # NoRun
    /\ swout.kind = "output"

\* extracted data without the metadata a node adds to it for plain text
Core(ed) ==
    IF ed.t = "obj" THEN [n \in DOMAIN ed.f \ {"metadata"} |-> ed.f[n]] ELSE ed

\* C25: when the one result of a batch and the single-document call carry
\* the same answer and both records are stored, the two documents hold the
\* same extracted data and the same classification (the sync path's
\* "completed" read as valid, its "failed" as invalid).
C25_CrossPathEquivalent ==
    (spc = "done" /\ SameAnswer /\ BothPersisted) =>
        \A m \in 1..Len(db), n \in 1..Len(sdb) :
            /\ Core(db[m].extracted_data) = Core(sdb[n].extracted_data)
            /\ db[m].processing_status =
                   (IF sdb[n].status = "completed" THEN "valid" ELSE "invalid")

\* the list of paths and the chunk size the chunking was given
PlanPaths == JsonLoads(cin.file_paths).v.xs
PlanSize == ParseInt(cin.chunk_size).n
Planned ==
    /\ cout # NoRun
    /\ JsonLoads(cin.file_paths).ok
    /\ JsonLoads(cin.file_paths).v.t = "list"
    /\ ParseInt(cin.chunk_size).ok
RECURSIVE Flatten(_)
Flatten(ss) == IF ss = <<>> THEN <<>> ELSE Head(ss) \o Flatten(Tail(ss))

\* C26: for a chunk size of at least 1 the chunking returns ceil(N / size)
\* chunks, each a JSON list; joined in order they are the N paths given, every
\* chunk but the last holds `size` paths and the last between 1 and `size`.
C26_ChunksPartition ==
    (Planned /\ PlanSize >= 1) =>
        /\ cout.kind = "output"
        /\ Len(cout.outputs) = (Len(PlanPaths) + PlanSize - 1) \div PlanSize
        /\ \A c \in 1..Len(cout.outputs) :
             /\ JsonLoads(cout.outputs[c].chunk).ok
             /\ JsonLoads(cout.outputs[c].chunk).v.t = "list"
             /\ LET size == Len(JsonLoads(cout.outputs[c].chunk).v.xs)
                IN IF c < Len(cout.outputs) THEN size = PlanSize
                   ELSE size >= 1 /\ size <= PlanSize
        /\ Flatten([c \in 1..Len(cout.outputs) |->
                      JsonLoads(cout.outputs[c].chunk).v.xs]) = PlanPaths
\* twelve paths planned with chunk size "5": chunks of 5, 5 and 2 paths
C26_Witness ==
    /\ cin.chunk_size = <<"5">>
    /\ cin.file_paths = Json(ListV(Paths(12)))
    /\ cout.kind = "output"
    /\ Len(cout.outputs) = 3
    /\ JsonLoads(cout.outputs[1].chunk).v.xs = <<"1", "2", "3", "4", "5">>
    /\ JsonLoads(cout.outputs[2].chunk).v.xs = <<"6", "7", "8", "9", "10">>
    /\ JsonLoads(cout.outputs[3].chunk).v.xs = <<"11", "12">>

\* C27: for a chunk size below 1 the chunking raises, whatever the list of
\* paths, and so emits no chunk.
C27_RejectsNonPositive ==
    (Planned /\ PlanSize < 1) => cout.kind = "error"

\* the chunk is a list of paths
IsChunk == JsonLoads(chunk).ok /\ JsonLoads(chunk).v.t = "list"
\* one request per path of the chunk, in order, an unreadable file's content
\* replaced by the marker
CompleteRequests(src) ==
    /\ Len(src) = Len(ChunkPaths)
    /\ \A k \in 1..Len(ChunkPaths) :
         src[k] = InlineRequest(Prompt,
                                IF ChunkPaths[k] \in unreadable
                                THEN ErrorMarker(ChunkPaths[k])
                                ELSE FileContent(ChunkPaths[k]))
CallsBy(node) == {n \in 1..Len(calls) : calls[n].by = node}

\* the graph's two nodes: parsing returns whatever cannot be read, and every
\* create call of the submission carries the complete requests
ParsedComplete ==
    /\ (IsChunk /\ pout # NoRun) => pout.kind = "output"
    /\ (IsChunk /\ bout # NoRun) => CallsBy("batch_request") # {}
    /\ \A n \in CallsBy("batch_request") : CompleteRequests(calls[n].src)
\* the node that reads and submits in one step
ProcessedComplete ==
    (IsChunk /\ bpout # NoRun) =>
        /\ CallsBy("batch_processing") # {}
        /\ \A n \in CallsBy("batch_processing") : CompleteRequests(calls[n].src)

\* C28: whichever files of a chunk cannot be read, the chunk is submitted with
\* one request per path in order, the unreadable files' content replaced by
\* the marker; this holds for the parsing and request nodes of the graph and
\* for BatchProcessingNode.
C28_DegradedButComplete == ParsedComplete /\ ProcessedComplete

\* the create calls of the batch_request state that created a job
JobsOfChunk == {n \in CallsBy("batch_request") : calls[n].ok}

\* C29: a submission that returned has made one create call; the chunk has
\* exactly one job, created with one request per file, and the Outputs name
\* that job, say submitted, list the chunk's paths in order and count them in
\* file_count and request_count.
C29_OneJobPerChunk ==
    /\ [](bout.kind = "output" =>
            LET bi == JsonLoads(bout.batch_info).v.f IN
            /\ Cardinality(JobsOfChunk) = 1
            /\ \A n \in JobsOfChunk :
                 /\ Len(calls[n].src) = Len(ChunkPaths)
                 /\ bout.task_id = calls[n].name
                 /\ bi.gemini_batch_id = calls[n].name
            /\ bi.status = "submitted"
            /\ bi.file_paths = ChunkPaths
            /\ bi.file_count = Len(ChunkPaths)
            /\ bi.request_count = Len(ChunkPaths))
    /\ [][(bout' # bout /\ bout'.kind = "output") =>
            Len(calls') = Len(calls) + 1]_vars
\* a chunk of three files, one of them unreadable, submitted at the first try
C29_Witness ==
    /\ bout.kind = "output"
    /\ Len(ChunkPaths) = 3
    /\ Cardinality(unreadable) = 1
    /\ tries = 0

\* C30: no create call follows a failed one: the batch_request state of a
\* chunk makes at most one create call, no action of the model being the
\* caller's.
C30_NoAutomaticRetry == Cardinality(CallsBy("batch_request")) <= 1

\* the polling state has returned a result for a job it saw in a final state
\* or could not query
TerminalEmitted ==
    /\ emitted # <<>>
    /\ last.out.kind = "output"
    /\ last.obs.fail \/ last.obs.job.state \in FinalStates

\* C31: the split runs, and items are created, validated, written and routed,
\* only once the polling has emitted a terminal result; an item is written or
\* routed only once its own validation has returned its record.
C31_PipelineOrder ==
    [][/\ (splitOut' # splitOut \/ items' # items) => TerminalEmitted
       /\ (items' # items => splitOut.kind = "output")
       /\ \A k \in DOMAIN vout' \ DOMAIN vout :
            TerminalEmitted /\ k \in DOMAIN items
       /\ \A k \in (DOMAIN wout' \ DOMAIN wout) \cup (DOMAIN rout' \ DOMAIN rout) :
            /\ TerminalEmitted
            /\ k \in DOMAIN vout
            /\ vout[k].kind = "output"]_vars
\* after a poll that asked to be resumed, both items have been validated,
\* written and routed
C31_Witness ==
    /\ prev.out.kind = "requeue"
    /\ DOMAIN wout = {1, 2}
    /\ DOMAIN rout = {1, 2}

\* C32: however many checks came before, a check that reads a status of a
\* job that is not succeeded, failed or cancelled asks to be resumed and
\* returns no result; no result has been emitted for the job so far.
C32_NoAttemptBound ==
    (last.out.kind # "none" /\ last.out.queries = 1 /\ ~last.obs.fail
        /\ last.obs.job.state \notin FinalStates) =>
        /\ last.out.kind = "requeue"
        /\ pc \in {"requeued", "queued"}
        /\ emitted = <<>>
\* as many consecutive requests to resume as the poll counter can tell apart,
\* no execution having raised or returned
C32_Witness ==
    /\ polls = MaxPolls
    /\ retries = 0
    /\ emitted = <<>>
    /\ pc = "requeued"
    /\ prev.out.kind = "requeue"
    /\ last.out.kind = "requeue"

\* C38: a check that reads a status code outside the six known ones maps it
\* to pending, asks to be resumed after the usual delay and returns nothing.
C38_UnknownCodeIsPending ==
    (last.out.kind # "none" /\ last.out.queries = 1 /\ ~last.obs.fail
        /\ last.obs.job.state \notin KnownStates) =>
        /\ last.out.mapped = "pending"
        /\ last.out.kind = "requeue"
        /\ last.out.delay = RequeueSeconds
        /\ last.out.downloads = 0
        /\ emitted = <<>>
\* a job polled again and again while it reports an unknown code
C38_Witness ==
    /\ polls = MaxPolls
    /\ job.state \notin KnownStates
    /\ last.obs.job = job
    /\ prev.obs.job = job
    /\ prev.out.kind = "requeue"
    /\ last.out.kind = "requeue"


\* the polling state has returned a result for a job that failed: it was
\* failed or cancelled, its status could not be read, or it succeeded with
\* neither inlined responses nor a result file
FailedEmitted ==
    /\ emitted # <<>>
    /\ last.out.kind = "output"
    /\ \/ last.obs.fail
       \/ last.obs.job.state \in {"JOB_STATE_FAILED", "JOB_STATE_CANCELLED"}
       \/ /\ last.obs.job.state = "JOB_STATE_SUCCEEDED"
          /\ ~HasInlined(last.obs.job.dest)
          /\ ~HasFileName(last.obs.job.dest)
\* C35: after a failed job the split, once run, has returned the empty list,
\* and no per-result state, database record or ledger entry exists.
C35_FailedJobLeavesNothing ==
    FailedEmitted =>
        /\ spc \in {"idle", "done"}
        /\ spc = "done" => splitOut = EmptyReturn
        /\ items = NoItems
        /\ vout = NoItems /\ rout = NoItems /\ wout = NoItems
        /\ db = <<>>
        /\ ledger = NoItems
\* the split has run on the result of a job that succeeded with nothing to
\* return
C35_Witness ==
    /\ FailedEmitted
    /\ last.obs.job.state = "JOB_STATE_SUCCEEDED"
    /\ spc = "done"
    /\ splitOut = EmptyReturn

\* the ValidatedRecord the validation of item k returned
RecordOf(k) == JsonLoads(vout[k].validated_data).v.f
\* the documents item k's write has inserted
DocsBy(k) == SelectSeq(db, LAMBDA d : d.by = k)
\* C34: the write of a validated record never fails because of the record or
\* its classification (only a failure of the database keeps it from being
\* stored), whether or not the record has been routed; a write that reports
\* success has stored one document whose processing_status is the record's
\* validation_status, be it valid, partial or invalid.
C34_WrittenWhateverClass ==
    \A k \in DOMAIN wout :
        /\ vout[k].kind = "output"
        /\ RecordOf(k).validation_status \in {"valid", "partial", "invalid"}
        /\ \/ wout[k].kind = "error" /\ wout[k].exc = "PyMongoError"
           \/ wout[k].kind = "output" /\ wout[k].write_status = "failed"
           \/ wout[k].kind = "output" /\ wout[k].write_status = "success"
        /\ IF wout[k].kind = "output" /\ wout[k].write_status = "success"
           THEN /\ Len(DocsBy(k)) = 1
                /\ DocsBy(k)[1].processing_status = RecordOf(k).validation_status
           ELSE DocsBy(k) = <<>>
\* an invalid and a partial record both stored, the first already routed and
\* the second not yet
C34_Witness ==
    /\ DOMAIN wout = {1, 2}
    /\ DOMAIN rout = {1}
    /\ RecordOf(1).validation_status = "invalid"
    /\ RecordOf(2).validation_status = "partial"
    /\ Len(DocsBy(1)) = 1 /\ DocsBy(1)[1].processing_status = "invalid"
    /\ Len(DocsBy(2)) = 1 /\ DocsBy(2)[1].processing_status = "partial"

\* the task_id recorded in the metadata item k carries
InfoTaskId(k) == JsonLoads(items[k].batch_info).v.f.task_id
\* C36: the task_id of every individual result, of every validated record and
\* of every ledger row of a batch is the task_id recorded in the batch's
\* metadata.
C36_CorrelationId ==
    /\ \A k \in DOMAIN items :
          JsonLoads(items[k].individual_result).v.f.task_id = InfoTaskId(k)
    /\ \A k \in DOMAIN vout :
          vout[k].kind = "output" => RecordOf(k).task_id = InfoTaskId(k)
    /\ \A row \in BatchRows : row.task_id = InfoTaskId(row.by)


\* the characters of a path of the batch's metadata
PathChars(p) ==
    CASE p = "a.pdf" -> <<"a", ".", "p", "d", "f">>
      [] p = "b.txt" -> <<"b", ".", "t", "x", "t">>
      [] OTHER -> <<"?">>
\* the paths a file_path of item k may be: none, or one of the metadata's
AllowedPaths(k) ==
    LET file_paths == JsonLoads(items[k].batch_info).v.f.file_paths
    IN {<<>>} \cup {PathChars(file_paths[n]) : n \in 1..Len(file_paths)}
\* C37: the file_path of every individual result, and of every database
\* document and ledger row derived from it, is empty or one of the paths in
\* the file_paths of the batch's metadata.
C37_FilePathOfBatch ==
    /\ \A k \in DOMAIN items :
          JsonLoads(items[k].individual_result).v.f.file_path \in AllowedPaths(k)
    /\ \A n \in 1..Len(db) : db[n].file_path \in AllowedPaths(db[n].by)
    /\ \A row \in BatchRows : row.file_path \in AllowedPaths(row.by)


\* the text is not JSON
Unparseable(text) == ~JsonLoads(text).ok
JSONDecodeError == [kind |-> "error", exc |-> "JSONDecodeError"]
\* C33: a poll, a split, a write or a routing handed a text that is not JSON
\* raises JSONDecodeError and has done nothing else: no status query and no
\* download, no result emitted, no item created, the collection and the
\* failures directory as they were.
C33_MalformedInputNoEffect ==
    [][/\ (last' # last /\ Unparseable(batch_info)) =>
             /\ last'.out.kind = "error"
             /\ last'.out.exc = "JSONDecodeError"
             /\ last'.out.queries = 0
             /\ last'.out.downloads = 0
             /\ emitted' = emitted
             /\ pc' = "errored"
       /\ (splitOut' # splitOut
             /\ \/ Unparseable(emitted[Len(emitted)].task_result)
                \/ Unparseable(emitted[Len(emitted)].batch_info)) =>
             /\ splitOut' = JSONDecodeError
             /\ spc' = "errored"
             /\ items' = items
       /\ \A k \in DOMAIN wout' \ DOMAIN wout :
             (Unparseable(vout[k].validated_data)
                \/ Unparseable(items[k].batch_info)) =>
             /\ wout'[k] = JSONDecodeError
             /\ db' = db
             /\ ledger' = ledger
       /\ \A k \in DOMAIN rout' \ DOMAIN rout :
             (Unparseable(vout[k].validated_data)
                \/ Unparseable(items[k].batch_info)) =>
             /\ rout'[k] = JSONDecodeError
             /\ ledger' = ledger
             /\ db' = db]_vars
\* a write and a routing have raised on a record that is not JSON, beside a
\* sibling that was stored and logged
C33_Witness ==
    /\ DOMAIN wout = {1, 2} /\ DOMAIN rout = {1, 2}
    /\ Unparseable(vout[1].validated_data)
    /\ wout[1] = JSONDecodeError /\ rout[1] = JSONDecodeError
    /\ Len(db) = 1 /\ db[1].by = 2
    /\ \A row \in BatchRows : row.by = 2
    /\ BatchRows # {}

====
